---------------------------- MODULE Spec2Model ----------------------------
(***************************************************************************)
(* Verification model of the gerbers-renderer geometry pipeline:           *)
(*   - the Gerber interpreter   (src/parse/gerber-parser.ts)               *)
(*   - the Excellon interpreter (src/parse/drill-parser.ts)                *)
(*   - the file classifier      (src/io/file-classifier.ts)                *)
(*   - the boolean geometry ops (src/geometry/boolean-ops.ts)              *)
(*   - the polygonizer          (src/geometry/polygonizer.ts)              *)
(*   - the stackup builder      (src/geometry/stackup-builder.ts)          *)
(*   - the text normalizer      (src/io/file-normalizer.ts)                *)
(*   - the pipeline             (src/core/pipeline.ts)                     *)
(*                                                                         *)
(* Each subsystem has its own specification (SpecGerber, SpecBool, ...)    *)
(* over the shared variable list; a specification keeps the variables of   *)
(* the other subsystems at their idle values.                              *)
(*                                                                         *)
(* Numbers.  The interpreter works in millimetres with IEEE doubles; the   *)
(* model works in exact integers: parser lengths are in nanometres         *)
(* (10^-6 mm), so that every decoded coordinate n / 10^fmtDec * unitScale  *)
(* with fmtDec <= 5 is an integer; unitScale is kept in tenths (10 for     *)
(* 1.0, 254 for 25.4).  Geometry (polygonizer, stackup) lengths are in     *)
(* micrometres, the grid keyOf() quantizes to.  An optional value          *)
(* (undefined / null in the source) is the empty sequence <<>> or <<v>>.   *)
(***************************************************************************)
EXTENDS Integers, Sequences, FiniteSets, TLC

VARIABLES
    gState,     \* gerber-parser.ts ParserState of the parse in progress
    gPhase,     \* "parsing" | "done": position of parseGerberFile
    gCount,     \* number of lines consumed so far
    gLast,      \* the line consumed by the last step (<<>> before the first)
    gResult     \* <<>> until parseGerberFile returns, then <<GerberPrimitives>>

gerberVars == <<gState, gPhase, gCount, gLast, gResult>>

VARIABLES
    procs       \* concurrent parses: for each, its kind, phase, the lines it
                \* has consumed, its state object and its result

VARIABLES
    bOp,        \* boolean-ops.ts: the operation called: union | subtract | intersect
    bA, bB,     \* its operands (bB unused by union)
    bFailAt,    \* the number of the engine call that throws (0: none does)
    bPhase,     \* "called" | "done"
    bOut,       \* the Polygon[] returned
    bNothing    \* whether some engine call threw or returned nothing

boolVars == <<bOp, bA, bB, bFailAt, bPhase, bOut, bNothing>>

VARIABLES
    cEntries,   \* file-classifier.ts: the ZipEntry[] passed to classifyFiles
    cHints,     \* the ordered hints (empty when none are given)
    cPos,       \* number of entries the loop has handled
    cBuckets,   \* the gerbers, drills and ignored arrays
    cPhase      \* "running" | "done"

classVars == <<cEntries, cHints, cPos, cBuckets, cPhase>>

VARIABLES
    sParams,    \* stackup-builder.ts: the BuildPcbGeometryParams of the call
    sPhase,     \* "called" | "done"
    sModel      \* <<>> until buildPcbGeometry returns, then <<PcbModelGeometry>>

stackVars == <<sParams, sPhase, sModel>>

VARIABLES
    pArchive,   \* pipeline.ts: the archive passed to loadPcbGeometryFromZip
    pOptions,   \* its options
    pPhase,     \* "called" | "reading" | "resolved" | "rejected"
    pOpened,    \* whether unzipGerbersZip has resolved
    pClassified,\* the ClassifiedFiles
    pReads,     \* number of getText() calls that have resolved
    pGerbers,   \* parsedGerbers
    pDrills,    \* parsedDrills
    pResult     \* <<>> until the promise resolves, then <<PcbModelGeometry>>

pipeVars == <<pArchive, pOptions, pPhase, pOpened, pClassified, pReads,
              pGerbers, pDrills, pResult>>

\* One call of polygonizePrimitives: its argument, whether it has returned,
\* the centerlines it built from the tracks and the polygons it returned.
VARIABLES zPrims, zPhase, zLines, zPolys
polyVars == <<zPrims, zPhase, zLines, zPolys>>

\* One call of parseDrillFile: its state, whether it has returned, the
\* lines it has read so far and the holes it returned.
VARIABLES dState, dPhase, dLines, dResult
drillVars == <<dState, dPhase, dLines, dResult>>

\* Calls of normalizeTextContent on a text and then on its own output: the
\* text, the argument of the last call and the number of calls so far.
VARIABLES txText, txPrev, txCalls
normVars == <<txText, txPrev, txCalls>>

VARIABLES
    bpTracks,   \* polygonizer.ts: the tracks passed to buildPolylines
    bpPhase,    \* "scan" | "back" | "forth" | "done": the loop being run
    bpI,        \* the index i of the outer loop (from 1)
    bpVisited,  \* the visited array
    bpPoints,   \* the points of the polyline being grown
    bpWidth,    \* its width
    bpPolylines,\* the polylines pushed so far
    bpMarks,    \* history: per track, the outer indices under which
                \* visited[idx] = true was executed for it
    bpPushed    \* history: <<i, width>> of every polyline pushed

lineVars == <<bpTracks, bpPhase, bpI, bpVisited, bpPoints, bpWidth, bpPolylines, bpMarks, bpPushed>>

notGerber == <<procs, boolVars, classVars, stackVars, pipeVars, polyVars, drillVars, normVars, lineVars>>
notProcs == <<gerberVars, boolVars, classVars, stackVars, pipeVars, polyVars, drillVars, normVars, lineVars>>
notBool == <<gerberVars, procs, classVars, stackVars, pipeVars, polyVars, drillVars, normVars, lineVars>>
notClassify == <<gerberVars, procs, boolVars, stackVars, pipeVars, polyVars, drillVars, normVars, lineVars>>
notStackup == <<gerberVars, procs, boolVars, classVars, pipeVars, polyVars, drillVars, normVars, lineVars>>
notPipeline == <<gerberVars, procs, boolVars, classVars, stackVars, polyVars, drillVars, normVars, lineVars>>
notPolygonize == <<gerberVars, procs, boolVars, classVars, stackVars, pipeVars, drillVars, normVars, lineVars>>
notDrill == <<gerberVars, procs, boolVars, classVars, stackVars, pipeVars, polyVars, normVars, lineVars>>
notNormalize == <<gerberVars, procs, boolVars, classVars, stackVars, pipeVars, polyVars, drillVars, lineVars>>
notBuildPolylines == <<gerberVars, procs, boolVars, classVars, stackVars, pipeVars, polyVars, drillVars, normVars>>

----------------------------------------------------------------------------
(* Bounds *)

\* Maximum number of input lines of one Gerber file.
MaxLines == 4

----------------------------------------------------------------------------
(* Small helpers *)

None == <<>>
Some(v) == <<v>>
IsSome(o) == o # <<>>
Val(o) == o[1]

Pow10(k) == CASE k = 0 -> 1 [] k = 1 -> 10 [] k = 2 -> 100 [] k = 3 -> 1000
              [] k = 4 -> 10000 [] k = 5 -> 100000 [] OTHER -> 1000000

Min2(a, b) == IF a <= b THEN a ELSE b

\* Nanometres per millimetre: the model's fixed-point unit for parser lengths.
NmPerMm == 1000 * 1000

----------------------------------------------------------------------------
(* ======================= Gerber interpreter ========================== *)
(* A line of the file is modelled by its lexical structure, as the regular *)
(* expressions of the parser see it:                                       *)
(*   [kind |-> "blank"]                     an empty line after trim()     *)
(*   [kind |-> "comment"]                   a line starting with G04       *)
(*   [kind |-> "param", t, ...]             a block %...% (FS, MO, AD, ..) *)
(*   [kind |-> "cmd", text, x, y, d]        anything else: a leading text  *)
(*        (G36, G37, G01, M02, junk ...), an optional X and Y token, and   *)
(*        an optional trailing D token given by its digit string.          *)

BlankLine == [kind |-> "blank"]
CommentLine == [kind |-> "comment"]
FSLine(ok, ix, dx) == [kind |-> "param", t |-> "FS", ok |-> ok, ix |-> ix, dx |-> dx]
MOLine(u) == [kind |-> "param", t |-> "MO", unit |-> u]
ADLine(ok, code, shape, p0, p1) ==
    [kind |-> "param", t |-> "AD", ok |-> ok, code |-> code, shape |-> shape,
     p0 |-> p0, p1 |-> p1]
OtherParamLine == [kind |-> "param", t |-> "TF"]
Cmd(text, x, y, d) == [kind |-> "cmd", text |-> text, x |-> x, y |-> y, d |-> d]
Coord(neg, n) == [neg |-> neg, n |-> n]

\* The initial ParserState of parseGerberFile.
InitParserState ==
    [unitScale |-> 10, fmtInt |-> 2, fmtDec |-> 4,
     x |-> 0, y |-> 0,
     heap |-> <<>>,              \* the Aperture objects allocated so far
     apertures |-> <<>>,         \* Map code -> Aperture, as <<code, ref>> pairs
     currentAperture |-> None,   \* null, or a reference into heap
     inRegion |-> FALSE, regionPaths |-> <<>>, currentPath |-> <<>>,
     tracks |-> <<>>, arcs |-> <<>>, flashes |-> <<>>, regions |-> <<>>]

\* Map.get / Map.has / Map.set on the aperture table (insertion ordered).
MapHas(m, code) == \E i \in 1..Len(m) : m[i][1] = code
MapGet(m, code) ==
    IF MapHas(m, code)
    THEN Some((CHOOSE i \in 1..Len(m) : m[i][1] = code))
    ELSE None
MapRef(m, code) == m[Val(MapGet(m, code))][2]
MapSet(m, code, ref) ==
    IF MapHas(m, code)
    THEN [i \in 1..Len(m) |-> IF m[i][1] = code THEN <<code, ref>> ELSE m[i]]
    ELSE Append(m, <<code, ref>>)
MapRefs(m) == {m[i][2] : i \in 1..Len(m)}

\* decodeCoord: sign * (n / 10^fmtDec) * unitScale, in nanometres.
decodeCoord(c, st) ==
    LET mag == (c.n * st.unitScale * Pow10(5)) \div Pow10(st.fmtDec)
    IN  IF c.neg THEN 0 - mag ELSE mag

\* parseFloat(part) * state.unitScale for a whole-number parameter, in nm.
SizeMm(p, st) == p * st.unitScale * Pow10(5)

\* The %FS block: sets the digit counts when the pattern matches.
HandleFS(b, st) ==
    IF b.ok THEN [st EXCEPT !.fmtInt = b.ix, !.fmtDec = b.dx] ELSE st

\* The aperture sizes multiplied by newScale / oldScale (exact: a size
\* defined or rescaled under scale s is a multiple of s).
RescaleOpt(o, newScale, oldScale) ==
    IF IsSome(o) THEN Some((Val(o) * newScale) \div oldScale) ELSE None

\* Mutant of RescaleAperture: only the diameter is rescaled.
RescaleApertureDiameterOnly(ap, newScale, oldScale) ==
    [ap EXCEPT !.diameterMm = RescaleOpt(@, newScale, oldScale)]

RescaleAperture(ap, newScale, oldScale) ==
    [ap EXCEPT !.diameterMm = RescaleOpt(@, newScale, oldScale),
               !.widthMm = RescaleOpt(@, newScale, oldScale),
               !.heightMm = RescaleOpt(@, newScale, oldScale)]

\* The %MO block: rescales the apertures of the table and sets unitScale.
HandleMO(b, st) ==
    LET oldScale == st.unitScale
        newScale == IF b.unit = "MM" THEN 10
                    ELSE IF b.unit = "IN" THEN 254 ELSE oldScale
    IN  IF newScale # oldScale
        THEN [st EXCEPT
                !.heap = [i \in 1..Len(st.heap) |->
                            IF i \in MapRefs(st.apertures)
                            THEN RescaleAperture(st.heap[i], newScale, oldScale)
                            ELSE st.heap[i]],
                !.unitScale = newScale]
        ELSE st

\* The Aperture object an %AD block builds.
MakeAperture(b, st) ==
    LET hasParams == IsSome(b.p0) \/ IsSome(b.p1)
        sizeX == IF IsSome(b.p0) THEN Some(SizeMm(Val(b.p0), st)) ELSE None
        sizeY == IF IsSome(b.p1) THEN Some(SizeMm(Val(b.p1), st)) ELSE None
        firstOf == IF IsSome(sizeX) THEN sizeX ELSE sizeY
        isRO == b.shape \in {"R", "O"}
    IN  [code |-> b.code, shape |-> b.shape,
         diameterMm |->
            IF ~hasParams THEN None
            ELSE IF b.shape = "C" THEN sizeX
            ELSE IF isRO /\ IsSome(sizeX) /\ IsSome(sizeY)
                 THEN Some(Min2(Val(sizeX), Val(sizeY)))
            ELSE firstOf,
         widthMm |-> IF hasParams /\ isRO THEN sizeX ELSE None,
         heightMm |-> IF hasParams /\ isRO THEN sizeY ELSE None]

\* The %AD block: allocates a new Aperture and registers it under its code.
HandleAD(b, st) ==
    IF ~b.ok THEN st
    ELSE [st EXCEPT !.heap = Append(@, MakeAperture(b, st)),
                    !.apertures = MapSet(@, b.code, Len(st.heap) + 1)]

handleParameterBlock(b, st) ==
    CASE b.t = "FS" -> HandleFS(b, st)
      [] b.t = "MO" -> HandleMO(b, st)
      [] b.t = "AD" -> HandleAD(b, st)
      [] OTHER -> st

\* The digits of a decimal literal as a number (parseInt(s, 10)).
RECURSIVE DigitsValue(_)
DigitsValue(ds) ==
    IF ds = <<>> THEN 0
    ELSE 10 * DigitsValue(SubSeq(ds, 1, Len(ds) - 1)) + ds[Len(ds)]

\* /D0?(\d{1,3})$/ on the trailing D token: an optional leading zero, then
\* one to three digits up to the end of the line; null when nothing matches.
ParseDCode(d) ==
    IF ~IsSome(d) THEN None
    ELSE LET ds == Val(d)
             rest == SubSeq(ds, 2, Len(ds))
         IN  IF Len(ds) >= 2 /\ ds[1] = 0 /\ Len(rest) <= 3
             THEN Some(DigitsValue(rest))
             ELSE IF Len(ds) >= 1 /\ Len(ds) <= 3
                  THEN Some(DigitsValue(ds))
                  ELSE None

\* Mutant of RegionPathsClosed: the contour in progress is kept whatever
\* its length.
RegionPathsClosedAnyLength(st) ==
    IF Len(st.currentPath) >= 1
    THEN Append(st.regionPaths, st.currentPath)
    ELSE st.regionPaths

\* G37 and the end-of-file finalisation share this: close the contour in
\* progress, emit the region when a contour was completed, leave region mode.
RegionPathsClosed(st) ==
    IF Len(st.currentPath) >= 3
    THEN Append(st.regionPaths, st.currentPath)
    ELSE st.regionPaths

FinishRegion(st) ==
    LET paths == RegionPathsClosed(st)
    IN  [st EXCEPT
            !.inRegion = FALSE,
            !.regions = IF Len(paths) > 0
                        THEN Append(@, [boundary |-> paths[1],
                                        holes |-> SubSeq(paths, 2, Len(paths))])
                        ELSE @,
            !.regionPaths = <<>>,
            !.currentPath = <<>>]

\* Mutant of HandleRegionOp: a flash (D03) in region mode with an aperture
\* selected adds a flash.
HandleRegionOpFlashes(dCode, newX, newY, st) ==
    LET path ==
            IF dCode = 1
            THEN Append(IF Len(st.currentPath) = 0
                        THEN <<[x |-> st.x, y |-> st.y]>>
                        ELSE st.currentPath,
                        [x |-> newX, y |-> newY])
            ELSE IF dCode = 2 THEN <<>> ELSE st.currentPath
        paths == IF dCode = 2 THEN RegionPathsClosed(st) ELSE st.regionPaths
    IN  [st EXCEPT !.currentPath = path, !.regionPaths = paths,
                   !.flashes = IF dCode = 3 /\ IsSome(st.currentAperture)
                               THEN Append(@, [position |-> [x |-> newX, y |-> newY],
                                               diameterMm |-> 8 * (NmPerMm \div 10),
                                               shape |-> "C", widthMm |-> None,
                                               heightMm |-> None])
                               ELSE @,
                   !.x = newX, !.y = newY]

\* Mutant of HandleRegionOp: D02 closes the contour but the contour in
\* progress is not emptied.
HandleRegionOpKeepsContour(dCode, newX, newY, st) ==
    LET path ==
            IF dCode = 1
            THEN Append(IF Len(st.currentPath) = 0
                        THEN <<[x |-> st.x, y |-> st.y]>>
                        ELSE st.currentPath,
                        [x |-> newX, y |-> newY])
            ELSE st.currentPath
        paths == IF dCode = 2 THEN RegionPathsClosed(st) ELSE st.regionPaths
    IN  [st EXCEPT !.currentPath = path, !.regionPaths = paths,
                   !.x = newX, !.y = newY]

\* Region drawing: D01 appends to the contour, D02 closes it.
HandleRegionOp(dCode, newX, newY, st) ==
    LET path ==
            IF dCode = 1
            THEN Append(IF Len(st.currentPath) = 0
                        THEN <<[x |-> st.x, y |-> st.y]>>
                        ELSE st.currentPath,
                        [x |-> newX, y |-> newY])
            ELSE IF dCode = 2 THEN <<>> ELSE st.currentPath
        paths == IF dCode = 2 THEN RegionPathsClosed(st) ELSE st.regionPaths
    IN  [st EXCEPT !.currentPath = path, !.regionPaths = paths,
                   !.x = newX, !.y = newY]

\* Mutant of HandleDraw: with no aperture selected the draw emits a track of
\* the default width.
HandleDrawAlways(newX, newY, st) ==
    [st EXCEPT
        !.tracks = Append(@, [start |-> [x |-> st.x, y |-> st.y],
                              end |-> [x |-> newX, y |-> newY],
                              width |->
                                 IF IsSome(st.currentAperture)
                                    /\ IsSome(st.heap[Val(st.currentAperture)].diameterMm)
                                 THEN Val(st.heap[Val(st.currentAperture)].diameterMm)
                                 ELSE 2 * (NmPerMm \div 10)]),
        !.x = newX, !.y = newY]

\* D01 outside a region.
HandleDraw(newX, newY, st) ==
    IF ~IsSome(st.currentAperture)
    THEN [st EXCEPT !.x = newX, !.y = newY]
    ELSE LET ap == st.heap[Val(st.currentAperture)]
             width == IF IsSome(ap.diameterMm) THEN Val(ap.diameterMm)
                      ELSE 2 * (NmPerMm \div 10)
         IN  [st EXCEPT
                !.tracks = Append(@, [start |-> [x |-> st.x, y |-> st.y],
                                      end |-> [x |-> newX, y |-> newY],
                                      width |-> width]),
                !.x = newX, !.y = newY]

\* Mutant of HandleFlash: the flash is placed at the pen position before
\* the operation.
HandleFlashAtPen(newX, newY, st) ==
    IF ~IsSome(st.currentAperture)
    THEN [st EXCEPT !.x = newX, !.y = newY]
    ELSE LET ap == st.heap[Val(st.currentAperture)]
             d == IF IsSome(ap.diameterMm) THEN Val(ap.diameterMm)
                  ELSE 8 * (NmPerMm \div 10)
         IN  [st EXCEPT
                !.flashes = Append(@, [position |-> [x |-> st.x, y |-> st.y],
                                       diameterMm |-> d, shape |-> ap.shape,
                                       widthMm |-> ap.widthMm,
                                       heightMm |-> ap.heightMm]),
                !.x = newX, !.y = newY]

\* D03 outside a region.
HandleFlash(newX, newY, st) ==
    IF ~IsSome(st.currentAperture)
    THEN [st EXCEPT !.x = newX, !.y = newY]
    ELSE LET ap == st.heap[Val(st.currentAperture)]
             d == IF IsSome(ap.diameterMm) THEN Val(ap.diameterMm)
                  ELSE 8 * (NmPerMm \div 10)
         IN  [st EXCEPT
                !.flashes = Append(@, [position |-> [x |-> newX, y |-> newY],
                                       diameterMm |-> d, shape |-> ap.shape,
                                       widthMm |-> ap.widthMm,
                                       heightMm |-> ap.heightMm]),
                !.x = newX, !.y = newY]

\* Mutant of HandleSelect: an undefined code clears the current aperture.
HandleSelectOrClear(dCode, st) ==
    IF MapHas(st.apertures, dCode)
    THEN [st EXCEPT !.currentAperture = Some(MapRef(st.apertures, dCode))]
    ELSE [st EXCEPT !.currentAperture = None]

\* Aperture select: repoints currentAperture when the code is defined.
HandleSelect(dCode, st) ==
    IF MapHas(st.apertures, dCode)
    THEN [st EXCEPT !.currentAperture = Some(MapRef(st.apertures, dCode))]
    ELSE st

\* Mutant of HandleNoDCode: a missing D code is taken as a modal D01.
HandleNoDCodeModalDraw(newX, newY, st) == HandleDraw(newX, newY, st)

\* A command line with no D code only moves the modal position.
HandleNoDCode(newX, newY, st) == [st EXCEPT !.x = newX, !.y = newY]

handleCommandLine(line, st) ==
    LET bare == ~IsSome(line.x) /\ ~IsSome(line.y) /\ ~IsSome(line.d)
        dc == ParseDCode(line.d)
        newX == IF IsSome(line.x) THEN decodeCoord(Val(line.x), st) ELSE st.x
        newY == IF IsSome(line.y) THEN decodeCoord(Val(line.y), st) ELSE st.y
    IN  IF line.text = "G36" /\ bare
        THEN [st EXCEPT !.inRegion = TRUE, !.regionPaths = <<>>,
                        !.currentPath = <<>>]
        ELSE IF line.text = "G37" /\ bare THEN FinishRegion(st)
        ELSE IF IsSome(dc) /\ Val(dc) >= 10 THEN HandleSelect(Val(dc), st)
        ELSE IF ~IsSome(dc) THEN HandleNoDCode(newX, newY, st)
        ELSE IF st.inRegion THEN HandleRegionOp(Val(dc), newX, newY, st)
        ELSE IF Val(dc) = 1 THEN HandleDraw(newX, newY, st)
        ELSE IF Val(dc) = 2 THEN [st EXCEPT !.x = newX, !.y = newY]
        ELSE IF Val(dc) = 3 THEN HandleFlash(newX, newY, st)
        ELSE st

\* One iteration of the line loop of parseGerberFile.
ProcessLine(line, st) ==
    CASE line.kind = "blank" -> st
      [] line.kind = "comment" -> st
      [] line.kind = "param" -> handleParameterBlock(line, st)
      [] OTHER -> handleCommandLine(line, st)

\* After the loop: an open region is finalised like G37.
FinalizeParse(st) == IF st.inRegion THEN FinishRegion(st) ELSE st

\* The GerberPrimitives value parseGerberFile returns.
PrimitivesOf(st) ==
    [tracks |-> st.tracks, arcs |-> st.arcs, flashes |-> st.flashes,
     regions |-> st.regions]

\* parseGerberFile on a whole sequence of lines, run alone.
RECURSIVE RunLines(_, _)
RunLines(ls, st) ==
    IF ls = <<>> THEN st ELSE RunLines(Tail(ls), ProcessLine(Head(ls), st))

parseGerberFile(ls) == PrimitivesOf(FinalizeParse(RunLines(ls, InitParserState)))

----------------------------------------------------------------------------
(* ======================= Drill interpreter =========================== *)
(* A line of an Excellon file, as parseDrillFile's tests see it:           *)
(*   blank, comment (";..."),                                              *)
(*   tooldef    starts with T and contains C; ok when /^T(\d+)[C]([\d.]+)/ *)
(*              matches, id = the digit string, dia = parseFloat (None for *)
(*              NaN), in thousandths of a file unit                        *)
(*   toolchange starts with T, no C; ok when /^T(\d+)/ matches             *)
(*   coord      contains X; ok when /X([\-0-9.]+)Y([\-0-9.]+)/ matches,    *)
(*              x and y = parseFloat (None for NaN)                        *)
(*   other      anything else                                              *)

DrillBlank == [kind |-> "blank"]
DrillComment == [kind |-> "comment"]
ToolDef(ok, id, dia) == [kind |-> "tooldef", ok |-> ok, id |-> id, dia |-> dia]
ToolChange(ok, id) == [kind |-> "toolchange", ok |-> ok, id |-> id]
DrillCoord(ok, x, y) == [kind |-> "coord", ok |-> ok, x |-> x, y |-> y]
DrillOther == [kind |-> "other"]

\* Fallback hole diameter 0.6, in thousandths.
DEFAULT_DRILL_DIAMETER == 600

InitDrillState ==
    [toolDiameters |-> <<>>, currentTool |-> None, holes |-> <<>>]

HandleToolDef(line, st) ==
    IF line.ok /\ IsSome(line.dia)
    THEN [st EXCEPT !.toolDiameters = MapSet(@, line.id, Val(line.dia))]
    ELSE st

HandleToolChange(line, st) ==
    IF line.ok THEN [st EXCEPT !.currentTool = Some(line.id)] ELSE st

\* Mutant of HoleDiameter: every hole gets the fallback diameter.
HoleDiameterFallbackOnly(st) == DEFAULT_DRILL_DIAMETER

\* The diameter a coordinate line gives its hole.
HoleDiameter(st) ==
    IF IsSome(st.currentTool) /\ MapHas(st.toolDiameters, Val(st.currentTool))
    THEN MapRef(st.toolDiameters, Val(st.currentTool))
    ELSE DEFAULT_DRILL_DIAMETER

HandleDrillCoord(line, st) ==
    IF line.ok /\ IsSome(line.x) /\ IsSome(line.y)
    THEN [st EXCEPT !.holes = Append(@, [x |-> Val(line.x), y |-> Val(line.y),
                                         diameter |-> HoleDiameter(st),
                                         plated |-> TRUE])]
    ELSE st

\* One iteration of the line loop of parseDrillFile.
ProcessDrillLine(line, st) ==
    CASE line.kind = "tooldef" -> HandleToolDef(line, st)
      [] line.kind = "toolchange" -> HandleToolChange(line, st)
      [] line.kind = "coord" -> HandleDrillCoord(line, st)
      [] OTHER -> st

RECURSIVE RunDrillLines(_, _)
RunDrillLines(ls, st) ==
    IF ls = <<>> THEN st
    ELSE RunDrillLines(Tail(ls), ProcessDrillLine(Head(ls), st))

\* parseDrillFile on a whole sequence of lines, run alone.
parseDrillFile(ls) == RunDrillLines(ls, InitDrillState).holes

----------------------------------------------------------------------------
(* ======================= Boolean geometry ============================ *)
(* Our Polygon is [outer |-> ring, holes |-> rings] with points [x, y].    *)
(* The engine's values are nested arrays; the model keeps the nesting      *)
(* depth with the value: [depth |-> 3, v |-> rings] is a PolygonCoords,    *)
(* [depth |-> 4, v |-> polygons] a MultiPolygonCoords, points are <<x, y>>.*)
(* The external engine (martinez) is modelled as the exact set operation   *)
(* on a strip of unit cells [c, c+1] x [0, 1]: every ring of the model is  *)
(* an axis-parallel rectangle of that strip.                               *)

Pt(x, y) == [x |-> x, y |-> y]
Poly(outer, holes) == [outer |-> outer, holes |-> holes]

MapRing(ring) == [i \in 1..Len(ring) |-> <<ring[i].x, ring[i].y>>]
UnmapRing(ring) == [i \in 1..Len(ring) |-> Pt(ring[i][1], ring[i][2])]

\* Mutant of polygonToMartinez: the degenerate-outer test is missing.
polygonToMartinezNoFilter(poly) ==
    Some([depth |-> 3,
          v |-> <<MapRing(poly.outer)>> \o
                [i \in 1..Len(poly.holes) |-> MapRing(poly.holes[i])]])

\* polygonToMartinez: null for a degenerate outer ring; holes under 3 points
\* are dropped.
polygonToMartinez(poly) ==
    IF Len(poly.outer) < 3 THEN None
    ELSE LET IsRing(h) == Len(h) >= 3
             holes == SelectSeq(poly.holes, IsRing)
         IN  Some([depth |-> 3,
                   v |-> <<MapRing(poly.outer)>> \o
                         [i \in 1..Len(holes) |-> MapRing(holes[i])]])

\* The nesting depth the heuristic of martinezToPolygons finds by looking at
\* the first element: 3 (PolygonCoords), 4 (MultiPolygonCoords) or 0.
NestingOfFirst(r) ==
    IF Len(r.v) = 0 \/ Len(r.v[1]) = 0 THEN 0
    ELSE IF r.depth = 3 THEN 3
    ELSE IF Len(r.v[1][1]) = 0 THEN 0 ELSE 4

\* One engine polygon (a list of rings) as our Polygon; skipped when its
\* outer ring has fewer than 3 points.
RECURSIVE PolysFromMulti(_)
PolysFromMulti(multi) ==
    IF multi = <<>> THEN <<>>
    ELSE LET poly == Head(multi)
             IsRing(h) == Len(h) >= 3
         IN  IF Len(poly) = 0 \/ Len(poly[1]) < 3
             THEN PolysFromMulti(Tail(multi))
             ELSE LET holes == SelectSeq(Tail(poly), IsRing)
                  IN  <<Poly(UnmapRing(poly[1]),
                             [i \in 1..Len(holes) |-> UnmapRing(holes[i])])>>
                      \o PolysFromMulti(Tail(multi))

\* martinezToPolygons: result is null (None) or an engine value.
martinezToPolygons(result) ==
    IF ~IsSome(result) THEN <<>>
    ELSE LET r == Val(result)
             d == NestingOfFirst(r)
         IN  IF d = 3 THEN PolysFromMulti(<<r.v>>)
             ELSE IF d = 4 THEN PolysFromMulti(r.v)
             ELSE <<>>

(* ---- the external engine, exact on the strip of cells ---- *)

BoolCells == 0..2

RingMinX(ring) == CHOOSE m \in {ring[i][1] : i \in 1..Len(ring)} :
                     \A i \in 1..Len(ring) : m <= ring[i][1]
RingMaxX(ring) == CHOOSE m \in {ring[i][1] : i \in 1..Len(ring)} :
                     \A i \in 1..Len(ring) : m >= ring[i][1]
RingCells(ring) ==
    IF Len(ring) < 3 THEN {}
    ELSE {c \in BoolCells : RingMinX(ring) <= c /\ c + 1 <= RingMaxX(ring)}

PolygonCells(rings) ==
    IF Len(rings) = 0 THEN {}
    ELSE RingCells(rings[1]) \ UNION {RingCells(rings[i]) : i \in 2..Len(rings)}

CoordsCells(c) ==
    IF c.depth = 3 THEN PolygonCells(c.v)
    ELSE UNION {PolygonCells(c.v[i]) : i \in 1..Len(c.v)}

RectRing(lo, hi) == <<<<lo, 0>>, <<hi, 0>>, <<hi, 1>>, <<lo, 1>>, <<lo, 0>>>>

RunEnd(c, cells) ==
    CHOOSE h \in BoolCells :
        /\ h >= c
        /\ \A k \in c..h : k \in cells
        /\ (h + 1) \notin cells

\* The maximal runs of covered cells, one rectangle polygon per run.
RECURSIVE CellRuns(_, _)
CellRuns(c, cells) ==
    IF c \notin BoolCells THEN <<>>
    ELSE IF c \notin cells THEN CellRuns(c + 1, cells)
    ELSE <<<<RectRing(c, RunEnd(c, cells) + 1)>>>>
            \o CellRuns(RunEnd(c, cells) + 2, cells)

\* martinez.union / diff / intersection: the exact result as a
\* MultiPolygonCoords; an empty result is null or [] (emptyNull).
EngineOp(op, a, b, emptyNull) ==
    LET ca == CoordsCells(a)
        cb == CoordsCells(b)
        cells == CASE op = "union" -> ca \cup cb
                   [] op = "diff" -> ca \ cb
                   [] OTHER -> ca \cap cb
    IN  IF cells = {} /\ emptyNull THEN None
        ELSE Some([depth |-> 4, v |-> CellRuns(0, cells)])

\* safeBooleanOp: the engine's value, or null when the call throws.
safeBooleanOp(op, a, b, throws, emptyNull) ==
    IF throws THEN None ELSE EngineOp(op, a, b, emptyNull)


\* The polygons polygonToMartinez accepts (validPolys / aValid) and their
\* engine form (polyCoordsList / aCoordsList).
ValidPolys(polys) ==
    LET Ok(q) == IsSome(polygonToMartinez(q)) IN SelectSeq(polys, Ok)
CoordsList(polys) ==
    LET v == ValidPolys(polys)
    IN  [i \in 1..Len(v) |-> Val(polygonToMartinez(v[i]))]

\* The left-to-right union reduce: null as soon as one call gives nothing.
\* k is the number of the next engine call, failAt the call that throws.
RECURSIVE UnionFold(_, _, _, _, _, _)
UnionFold(list, i, acc, k, failAt, emptyNull) ==
    IF i > Len(list) THEN Some(acc)
    ELSE LET res == safeBooleanOp("union", acc, list[i], k = failAt, emptyNull)
         IN  IF ~IsSome(res) THEN None
             ELSE UnionFold(list, i + 1, Val(res), k + 1, failAt, emptyNull)

UnionOf(list, k, failAt, emptyNull) ==
    UnionFold(list, 2, list[1], k, failAt, emptyNull)

unionPolygons(polys, failAt, emptyNull) ==
    LET coords == CoordsList(polys)
        validPolys == ValidPolys(polys)
    IN  IF Len(polys) = 0 \/ Len(coords) = 0 THEN <<>>
        ELSE IF Len(coords) = 1 THEN validPolys
        ELSE LET result == UnionOf(coords, 1, failAt, emptyNull)
             IN  IF ~IsSome(result) THEN validPolys
                 ELSE LET merged == martinezToPolygons(result)
                      IN  IF Len(merged) = 0 THEN validPolys ELSE merged

subtractPolygons(a, b, failAt, emptyNull) ==
    LET aC == CoordsList(a)
        bC == CoordsList(b)
        aValid == ValidPolys(a)
    IN  IF Len(a) = 0 THEN <<>>
        ELSE IF Len(b) = 0 THEN a
        ELSE IF Len(aC) = 0 THEN <<>>
        ELSE IF Len(bC) = 0 THEN aValid
        ELSE LET aUnion == UnionOf(aC, 1, failAt, emptyNull)
                 bUnion == UnionOf(bC, Len(aC), failAt, emptyNull)
             IN  IF ~IsSome(aUnion) \/ ~IsSome(bUnion) THEN aValid
                 ELSE LET diffRes ==
                              safeBooleanOp("diff", Val(aUnion), Val(bUnion),
                                  failAt = Len(aC) + Len(bC) - 1, emptyNull)
                          result == martinezToPolygons(diffRes)
                      IN  IF ~IsSome(diffRes) THEN aValid
                          ELSE IF Len(result) > 0 THEN result ELSE aValid

\* Mutant of intersectPolygons: a failed call returns the first operand.
intersectPolygonsFallbackA(a, b, failAt, emptyNull) ==
    LET aC == CoordsList(a)
        bC == CoordsList(b)
    IN  IF Len(a) = 0 \/ Len(b) = 0 \/ Len(aC) = 0 \/ Len(bC) = 0 THEN <<>>
        ELSE LET aUnion == UnionOf(aC, 1, failAt, emptyNull)
                 bUnion == UnionOf(bC, Len(aC), failAt, emptyNull)
             IN  IF ~IsSome(aUnion) \/ ~IsSome(bUnion) THEN ValidPolys(a)
                 ELSE LET interRes ==
                              safeBooleanOp("intersection", Val(aUnion),
                                  Val(bUnion), failAt = Len(aC) + Len(bC) - 1,
                                  emptyNull)
                      IN  IF ~IsSome(interRes) THEN ValidPolys(a)
                          ELSE martinezToPolygons(interRes)

intersectPolygons(a, b, failAt, emptyNull) ==
    LET aC == CoordsList(a)
        bC == CoordsList(b)
    IN  IF Len(a) = 0 \/ Len(b) = 0 \/ Len(aC) = 0 \/ Len(bC) = 0 THEN <<>>
        ELSE LET aUnion == UnionOf(aC, 1, failAt, emptyNull)
                 bUnion == UnionOf(bC, Len(aC), failAt, emptyNull)
             IN  IF ~IsSome(aUnion) \/ ~IsSome(bUnion) THEN <<>>
                 ELSE LET interRes ==
                              safeBooleanOp("intersection", Val(aUnion),
                                  Val(bUnion), failAt = Len(aC) + Len(bC) - 1,
                                  emptyNull)
                      IN  IF ~IsSome(interRes) THEN <<>>
                          ELSE martinezToPolygons(interRes)

\* Whether some safeBooleanOp call of the operation returned null (the
\* engine threw, or returned nothing): what console.warn / the !res tests see.
EngineGaveNothing(op, a, b, failAt, emptyNull) ==
    LET aC == CoordsList(a)
        bC == CoordsList(b)
    IN  IF op = "union"
        THEN Len(aC) >= 2 /\ ~IsSome(UnionOf(aC, 1, failAt, emptyNull))
        ELSE /\ Len(aC) >= 1
             /\ Len(bC) >= 1
             /\ LET aUnion == UnionOf(aC, 1, failAt, emptyNull)
                    bUnion == UnionOf(bC, Len(aC), failAt, emptyNull)
                IN  \/ ~IsSome(aUnion)
                    \/ ~IsSome(bUnion)
                    \/ ~IsSome(safeBooleanOp(
                            IF op = "subtract" THEN "diff" ELSE "intersection",
                            Val(aUnion), Val(bUnion),
                            failAt = Len(aC) + Len(bC) - 1, emptyNull))

----------------------------------------------------------------------------
(* ========================= File classifier =========================== *)
(* A string is the sequence of its characters.                             *)

UpperToLower ==
    ("A" :> "a") @@ ("B" :> "b") @@ ("C" :> "c") @@ ("D" :> "d") @@ ("E" :> "e") @@ ("F" :> "f")
    @@ ("G" :> "g") @@ ("H" :> "h") @@ ("I" :> "i") @@ ("J" :> "j") @@ ("K" :> "k") @@ ("L" :> "l")
    @@ ("M" :> "m") @@ ("N" :> "n") @@ ("O" :> "o") @@ ("P" :> "p") @@ ("Q" :> "q") @@ ("R" :> "r")
    @@ ("S" :> "s") @@ ("T" :> "t") @@ ("U" :> "u") @@ ("V" :> "v") @@ ("W" :> "w") @@ ("X" :> "x")
    @@ ("Y" :> "y") @@ ("Z" :> "z")

toLowerCase(str) ==
    [i \in 1..Len(str) |->
        IF str[i] \in DOMAIN UpperToLower THEN UpperToLower[str[i]] ELSE str[i]]

startsWithAt(str, sub, k) ==
    /\ k + Len(sub) - 1 <= Len(str)
    /\ \A i \in 1..Len(sub) : str[k + i - 1] = sub[i]

endsWith(str, suf) ==
    Len(suf) <= Len(str) /\ startsWithAt(str, suf, Len(str) - Len(suf) + 1)

includes(str, sub) == \E k \in 1..(Len(str) + 1) : startsWithAt(str, sub, k)

\* name.split("/").pop() || name
BaseNameOf(name) ==
    LET slashes == {i \in 1..Len(name) : name[i] = "/"}
        last == IF slashes = {} THEN 0
                ELSE CHOOSE i \in slashes : \A j \in slashes : j <= i
        tail == SubSeq(name, last + 1, Len(name))
    IN  IF tail = <<>> THEN name ELSE tail

isDrillFile(lowerName) ==
    \/ endsWith(lowerName, <<".", "d", "r", "l">>)
    \/ endsWith(lowerName, <<".", "x", "l", "n", "t">>)
    \/ includes(lowerName, <<"d", "r", "i", "l", "l">>)
    \/ includes(lowerName, <<"v", "i", "a">>)

GerberExtensions ==
    {<<".", "g", "b", "r">>, <<".", "g", "b", "x">>, <<".", "p", "h", "o">>,
     <<".", "a", "r", "t">>, <<".", "c", "m", "p">>, <<".", "s", "o", "l">>,
     <<".", "s", "t", "c">>, <<".", "s", "t", "s">>, <<".", "g", "t", "l">>,
     <<".", "g", "b", "l">>, <<".", "g", "t", "s">>, <<".", "g", "b", "s">>,
     <<".", "g", "t", "o">>, <<".", "g", "b", "o">>, <<".", "g", "m", "1">>}

isLikelyGerber(lowerName) == \E ext \in GerberExtensions : endsWith(lowerName, ext)

\* pattern.split("*"): the literal pieces between the wildcards.
RECURSIVE SplitStar(_, _)
SplitStar(pattern, piece) ==
    IF pattern = <<>> THEN <<piece>>
    ELSE IF Head(pattern) = "*"
         THEN <<piece>> \o SplitStar(Tail(pattern), <<>>)
         ELSE SplitStar(Tail(pattern), Append(piece, Head(pattern)))

\* The characters the regular expression's "." does not match.
LineTerminators == {"\n", "\r"}

\* The regular expression "^" + pieces.join(".*") + "$" tested on name from
\* position k on: the first piece at k, every later piece after a run of
\* characters "." matches, the last piece at the end.
RECURSIVE MatchPieces(_, _, _, _)
MatchPieces(name, k, pieces, first) ==
    LET piece == Head(pieces)
        starts == IF first THEN {k}
                  ELSE {j \in k..(Len(name) + 1) :
                          \A i \in k..(j - 1) : name[i] \notin LineTerminators}
    IN  IF Len(pieces) = 1
        THEN \E j \in starts :
                /\ startsWithAt(name, piece, j)
                /\ j + Len(piece) - 1 = Len(name)
        ELSE \E j \in starts :
                /\ startsWithAt(name, piece, j)
                /\ MatchPieces(name, j + Len(piece), Tail(pieces), FALSE)

matchesPattern(name, pattern) ==
    IF \E i \in 1..Len(pattern) : pattern[i] = "*"
    THEN MatchPieces(name, 1, SplitStar(pattern, <<>>), TRUE)
    ELSE name = pattern

\* The ordered substring / suffix heuristics of classifyLayerRole.
HeuristicRole(lower) ==
    IF includes(lower, <<"f", "_", "c", "u">>) \/ endsWith(lower, <<".", "g", "t", "l">>)
          \/ (includes(lower, <<"t", "o", "p">>) /\ includes(lower, <<"c", "u">>))
    THEN "top_copper"
    ELSE IF includes(lower, <<"b", "_", "c", "u">>) \/ endsWith(lower, <<".", "g", "b", "l">>)
          \/ (includes(lower, <<"b", "o", "t">>) /\ includes(lower, <<"c", "u">>))
    THEN "bottom_copper"
    ELSE IF includes(lower, <<"i", "n">>) /\ includes(lower, <<"c", "u">>) THEN "inner_copper"
    ELSE IF includes(lower, <<"f", "_", "m", "a", "s", "k">>) \/ endsWith(lower, <<".", "g", "t", "s">>)
          \/ (includes(lower, <<"t", "o", "p">>) /\ includes(lower, <<"m", "a", "s", "k">>))
    THEN "top_mask"
    ELSE IF includes(lower, <<"b", "_", "m", "a", "s", "k">>) \/ endsWith(lower, <<".", "g", "b", "s">>)
          \/ (includes(lower, <<"b", "o", "t">>) /\ includes(lower, <<"m", "a", "s", "k">>))
    THEN "bottom_mask"
    ELSE IF includes(lower, <<"f", "_", "s", "i", "l", "k">>) \/ endsWith(lower, <<".", "g", "t", "o">>)
          \/ (includes(lower, <<"t", "o", "p">>) /\ includes(lower, <<"s", "i", "l", "k">>))
    THEN "top_silk"
    ELSE IF includes(lower, <<"b", "_", "s", "i", "l", "k">>) \/ endsWith(lower, <<".", "g", "b", "o">>)
          \/ (includes(lower, <<"b", "o", "t">>) /\ includes(lower, <<"s", "i", "l", "k">>))
    THEN "bottom_silk"
    ELSE IF includes(lower, <<"e", "d", "g", "e", "_", "c", "u", "t", "s">>) \/ includes(lower, <<"o", "u", "t", "l", "i", "n", "e">>)
          \/ includes(lower, <<"e", "d", "g", "e">>) \/ endsWith(lower, <<".", "g", "m", "1">>)
    THEN "outline"
    ELSE IF includes(lower, <<"m", "e", "c", "h">>) \/ includes(lower, <<"m", "e", "c", "h", "a", "n", "i", "c", "a", "l">>)
    THEN "mechanical"
    ELSE "unknown"

\* The hints that match the base name, by position in the list.
MatchingHints(baseName, hints) ==
    {i \in 1..Len(hints) : matchesPattern(baseName, hints[i].pattern)}

\* Mutant of classifyLayerRole: the heuristics are consulted first and a
\* hint decides only when they give "unknown".
classifyLayerRoleHeuristicsFirst(name, hints) ==
    LET baseName == BaseNameOf(name)
        matching == MatchingHints(baseName, hints)
        h == HeuristicRole(toLowerCase(baseName))
    IN  IF h # "unknown" \/ matching = {} THEN h
        ELSE hints[CHOOSE i \in matching : \A j \in matching : i <= j].role

classifyLayerRole(name, hints) ==
    LET baseName == BaseNameOf(name)
        matching == MatchingHints(baseName, hints)
    IN  IF matching # {}
        THEN hints[CHOOSE i \in matching : \A j \in matching : i <= j].role
        ELSE HeuristicRole(toLowerCase(baseName))

\* Mutant of ClassifyEntry: the Gerber test comes before the drill test.
ClassifyEntryGerberFirst(entry, hints, b) ==
    LET lowerName == toLowerCase(entry.name)
    IN  IF isLikelyGerber(lowerName)
        THEN [b EXCEPT !.gerbers = Append(@, [name |-> entry.name,
                                 role |-> classifyLayerRole(entry.name, hints),
                                 rawEntry |-> entry])]
        ELSE IF isDrillFile(lowerName)
        THEN [b EXCEPT !.drills = Append(@, [name |-> entry.name, rawEntry |-> entry])]
        ELSE [b EXCEPT !.ignored = Append(@, entry)]

\* Mutant of ClassifyEntry: the drill branch does not `continue`.
ClassifyEntryFallThrough(entry, hints, b) ==
    LET lowerName == toLowerCase(entry.name)
        d == IF isDrillFile(lowerName)
             THEN Append(b.drills, [name |-> entry.name, rawEntry |-> entry])
             ELSE b.drills
    IN  IF isLikelyGerber(lowerName)
        THEN [b EXCEPT !.drills = d,
                !.gerbers = Append(@, [name |-> entry.name,
                                       role |-> classifyLayerRole(entry.name, hints),
                                       rawEntry |-> entry])]
        ELSE IF isDrillFile(lowerName) THEN [b EXCEPT !.drills = d]
        ELSE [b EXCEPT !.ignored = Append(@, entry)]

\* The loop body of classifyFiles: the bucket the entry is pushed to.
ClassifyEntry(entry, hints, b) ==
    LET lowerName == toLowerCase(entry.name)
    IN  IF isDrillFile(lowerName)
        THEN [b EXCEPT !.drills = Append(@, [name |-> entry.name, rawEntry |-> entry])]
        ELSE IF isLikelyGerber(lowerName)
        THEN [b EXCEPT !.gerbers = Append(@, [name |-> entry.name,
                                 role |-> classifyLayerRole(entry.name, hints),
                                 rawEntry |-> entry])]
        ELSE [b EXCEPT !.ignored = Append(@, entry)]

EmptyBuckets == [gerbers |-> <<>>, drills |-> <<>>, ignored |-> <<>>]

RECURSIVE classifyFiles(_, _)
classifyFiles(entries, hints) ==
    IF entries = <<>> THEN EmptyBuckets
    ELSE ClassifyEntry(entries[Len(entries)], hints,
                       classifyFiles(SubSeq(entries, 1, Len(entries) - 1), hints))

----------------------------------------------------------------------------
(* ========================= Polygonizer ================================ *)
(* Planned geometry: lengths in micrometres.  Directions are the unit      *)
(* vectors of axis-parallel segments, for which Math.hypot is exact; sines *)
(* and cosines are taken at multiples of pi/16 from a table of 1/10000ths  *)
(* and the products rounded to the micrometre.                             *)

MicronsPerMm == NmPerMm \div 1000

DEFAULT_TRACE_WIDTH_MM == 2 * (MicronsPerMm \div 10)
DEFAULT_FLASH_DIAM_MM == 8 * (MicronsPerMm \div 10)
DEFAULT_CIRCLE_SEGMENTS == 32
CAP_SEGMENTS == 8

Vec(x, y) == [x |-> x, y |-> y]
add(a, b) == Vec(a.x + b.x, a.y + b.y)

Sgn(n) == IF n > 0 THEN 1 ELSE IF n < 0 THEN -1 ELSE 0
RoundDiv(a, b) == IF a >= 0 THEN (2 * a + b) \div (2 * b)
                  ELSE -((2 * (-a) + b) \div (2 * b))
Reverse(seq) == [i \in 1..Len(seq) |-> seq[Len(seq) + 1 - i]]

\* 10000 * cos(k * pi / 16), k = 0..8
CosTable == <<10000, 9808, 9239, 8315, 7071, 5556, 3827, 1951, 0>>

Cos16(k) ==
    LET kk == ((k % 32) + 32) % 32
    IN  IF kk <= 8 THEN CosTable[kk + 1]
        ELSE IF kk <= 16 THEN -CosTable[16 - kk + 1]
        ELSE IF kk <= 24 THEN -CosTable[kk - 16 + 1]
        ELSE CosTable[32 - kk + 1]

Sin16(k) == Cos16(k - 8)

\* center + (cos, sin)(k * pi / 16) * diameter / 2
PointOnCircle(center, diameter, k) ==
    Vec(center.x + RoundDiv(Cos16(k) * diameter, 20000),
        center.y + RoundDiv(Sin16(k) * diameter, 20000))

\* Math.round(p.x * 1000) : Math.round(p.y * 1000)
keyOf(pt) == <<pt.x, pt.y>>

\* POINT_JOIN_EPS is 1e-3 mm: one micrometre.
isSamePoint(a, b) ==
    (a.x - b.x) * (a.x - b.x) + (a.y - b.y) * (a.y - b.y) <= 1

\* The node map entry of a key: the track ends at it, in insertion order.
Incidents(tracks, key) ==
    LET all == [k \in 1..(2 * Len(tracks)) |->
                  [idx |-> (k + 1) \div 2,
                   end |-> IF k % 2 = 1 THEN "start" ELSE "end"]]
    IN  SelectSeq(all, LAMBDA inc :
            keyOf(IF inc.end = "start" THEN tracks[inc.idx].start
                  ELSE tracks[inc.idx].end) = key)

\* Mutant of NextIncident: tracks already visited are not skipped.
NextIncidentAnyTrack(incidents, tracks, visited, pivot) ==
    LET usable == {k \in 1..Len(incidents) :
                     \/ isSamePoint(tracks[incidents[k].idx].start, pivot)
                     \/ isSamePoint(tracks[incidents[k].idx].end, pivot)}
    IN  IF usable = {} THEN None
        ELSE Some(incidents[CHOOSE k \in usable : \A j \in usable : k <= j].idx)

\* The first incident track not yet visited that touches the pivot.
NextIncident(incidents, tracks, visited, pivot) ==
    LET usable == {k \in 1..Len(incidents) :
                     /\ ~visited[incidents[k].idx]
                     /\ \/ isSamePoint(tracks[incidents[k].idx].start, pivot)
                        \/ isSamePoint(tracks[incidents[k].idx].end, pivot)}
    IN  IF usable = {} THEN None
        ELSE Some(incidents[CHOOSE k \in usable : \A j \in usable : k <= j].idx)

\* Mutant of OtherEnd: the chain always continues with the start of the
\* next track.
OtherEndIsStart(nextTrack, pivot) == nextTrack.start

OtherEnd(nextTrack, pivot) ==
    IF isSamePoint(nextTrack.start, pivot) THEN nextTrack.end ELSE nextTrack.start

Grow(points, other, fromStart) ==
    IF fromStart THEN <<other>> \o points ELSE Append(points, other)

RECURSIVE extendPolyline(_, _, _, _)
RECURSIVE ExtendBy(_, _, _, _, _, _)
ExtendBy(next, pivot, points, tracks, visited, fromStart) ==
    IF ~IsSome(next) THEN [points |-> points, visited |-> visited]
    ELSE extendPolyline(Grow(points, OtherEnd(tracks[Val(next)], pivot), fromStart),
                        tracks, [visited EXCEPT ![Val(next)] = TRUE], fromStart)

ExtendAt(pivot, points, tracks, visited, fromStart) ==
    ExtendBy(NextIncident(Incidents(tracks, keyOf(pivot)), tracks, visited, pivot),
             pivot, points, tracks, visited, fromStart)

extendPolyline(points, tracks, visited, fromStart) ==
    ExtendAt(IF fromStart THEN points[1] ELSE points[Len(points)],
             points, tracks, visited, fromStart)

RECURSIVE DedupeFrom(_, _, _)
DedupeFrom(pts, i, out) ==
    IF i > Len(pts) THEN out
    ELSE DedupeFrom(pts, i + 1,
                    IF isSamePoint(pts[i], out[Len(out)]) THEN out
                    ELSE Append(out, pts[i]))

dedupePoints(pts) == IF Len(pts) <= 1 THEN pts ELSE DedupeFrom(pts, 2, <<pts[1]>>)

\* Unit direction of an axis-parallel segment.
DirOf(a, b) == Vec(Sgn(b.x - a.x), Sgn(b.y - a.y))

\* The second loop of simplifyPolyline: a point in the direction of the run
\* replaces its last point, a corner is appended.
RECURSIVE SimplifyFrom(_, _, _, _, _)
SimplifyFrom(pts, i, out, prev, prevDir) ==
    IF i > Len(pts) THEN out
    ELSE LET curr == pts[i]
         IN  IF curr = prev THEN SimplifyFrom(pts, i + 1, out, prev, prevDir)
             ELSE IF DirOf(prev, curr) = prevDir
             THEN SimplifyFrom(pts, i + 1, [out EXCEPT ![Len(out)] = curr],
                               curr, prevDir)
             ELSE SimplifyFrom(pts, i + 1, Append(out, curr), curr,
                               DirOf(prev, curr))

SimplifyAfter(pts, first) ==
    SimplifyFrom(pts, 3, <<pts[1], first>>, first, DirOf(pts[1], first))

FirstMoved(pts, moved) ==
    IF moved = {} THEN <<pts[1], pts[Len(pts)]>>
    ELSE SimplifyAfter(pts, pts[CHOOSE i \in moved : \A j \in moved : i <= j])

simplifyPolyline(pts) ==
    IF Len(pts) <= 2 THEN pts
    ELSE FirstMoved(pts, {i \in 2..Len(pts) : pts[i] # pts[1]})

RECURSIVE BuildPolylinesFrom(_, _, _, _)
Chained(i, tracks, width, forth, polylines) ==
    BuildPolylinesFrom(i + 1, tracks, forth.visited,
                       IF Len(forth.points) >= 2
                       THEN Append(polylines, [points |-> forth.points,
                                               width |-> width])
                       ELSE polylines)

Cleaned(forth) ==
    [points |-> simplifyPolyline(dedupePoints(forth.points)),
     visited |-> forth.visited]

GrowForth(back, tracks) == extendPolyline(back.points, tracks, back.visited, FALSE)

BuildPolylinesFrom(i, tracks, visited, polylines) ==
    IF i > Len(tracks) THEN polylines
    ELSE IF visited[i] THEN BuildPolylinesFrom(i + 1, tracks, visited, polylines)
    ELSE Chained(i, tracks,
                 IF tracks[i].width # 0 THEN tracks[i].width
                 ELSE DEFAULT_TRACE_WIDTH_MM,
                 Cleaned(GrowForth(
                     extendPolyline(<<tracks[i].start, tracks[i].end>>, tracks,
                                    [visited EXCEPT ![i] = TRUE], TRUE),
                     tracks)),
                 polylines)

buildPolylines(tracks) ==
    BuildPolylinesFrom(1, tracks, [i \in 1..Len(tracks) |-> FALSE], <<>>)

\* Twice the signed area of computeSignedArea.
RECURSIVE AreaSum(_, _)
AreaSum(points, i) ==
    IF i = 0 THEN 0
    ELSE AreaSum(points, i - 1)
           + (points[(i % Len(points)) + 1].x - points[i].x)
               * (points[(i % Len(points)) + 1].y + points[i].y)

computeSignedArea(points) == AreaSum(points, Len(points))

ensureClockwise(points) ==
    IF Len(points) < 3 THEN points
    ELSE IF computeSignedArea(points) < 0 THEN points ELSE Reverse(points)

ensureCounterClockwise(points) ==
    IF Len(points) < 3 THEN points
    ELSE IF computeSignedArea(points) > 0 THEN points ELSE Reverse(points)

leftNormal(d) == Vec(-d.y, d.x)
rightNormal(d) == Vec(d.y, -d.x)

\* Math.atan2 of an axis unit vector, in units of pi/16.
AngleOf(d) ==
    IF d.x > 0 THEN 0 ELSE IF d.y > 0 THEN 8 ELSE IF d.x < 0 THEN 16
    ELSE IF d.y < 0 THEN -8 ELSE 0

\* The joint offset of two consecutive axis directions: the normal itself
\* on a reversal or a straight run, the sum of the two normals (the miter
\* of length sqrt 2) on a right angle.
computeMiter(dPrev, dNext, isLeft) ==
    LET nPrev == IF isLeft THEN leftNormal(dPrev) ELSE rightNormal(dPrev)
        nNext == IF isLeft THEN leftNormal(dNext) ELSE rightNormal(dNext)
        m == add(nPrev, nNext)
    IN  IF m = Vec(0, 0) \/ nPrev = nNext THEN nPrev ELSE m

\* A semicircle of CAP_SEGMENTS + 1 points around center from angle a0.
CapPoints(center, width, a0) ==
    [i \in 1..(CAP_SEGMENTS + 1) |->
        PointOnCircle(center, width, a0 + (i - 1) * (16 \div CAP_SEGMENTS))]

Offset(pt, normal, width) ==
    Vec(pt.x + RoundDiv(normal.x * width, 2), pt.y + RoundDiv(normal.y * width, 2))

\* The left or the right body: flat cap vertices at the two ends, a joint
\* offset at every interior point.
StrokeBody(points, width, segDirs, isLeft) ==
    [i \in 1..Len(points) |->
        IF i = 1
        THEN Offset(points[1],
                    IF isLeft THEN leftNormal(segDirs[1])
                    ELSE rightNormal(segDirs[1]), width)
        ELSE IF i = Len(points)
        THEN Offset(points[i],
                    IF isLeft THEN leftNormal(segDirs[i - 1])
                    ELSE rightNormal(segDirs[i - 1]), width)
        ELSE Offset(points[i],
                    computeMiter(segDirs[i - 1], segDirs[i], isLeft), width)]

FinalOuter(points, width, segDirs) ==
    StrokeBody(points, width, segDirs, TRUE)
      \o SubSeq(CapPoints(points[Len(points)], width,
                          AngleOf(leftNormal(segDirs[Len(segDirs)]))),
                2, CAP_SEGMENTS)
      \o Reverse(StrokeBody(points, width, segDirs, FALSE))
      \o Reverse(SubSeq(CapPoints(points[1], width,
                                  AngleOf(rightNormal(segDirs[1]))),
                        2, CAP_SEGMENTS))

StrokeResult(finalOuter) ==
    IF Len(finalOuter) < 3 THEN None
    ELSE Some([outer |-> ensureClockwise(dedupePoints(finalOuter)),
               holes |-> <<>>])

strokePolyline(points, width) ==
    IF Len(points) < 2 \/ width <= 0 THEN None
    ELSE StrokeResult(FinalOuter(points, width,
            [i \in 1..(Len(points) - 1) |-> DirOf(points[i], points[i + 1])]))

approximateCircle(center, diameter, segments) ==
    [outer |-> [i \in 1..segments |->
                   PointOnCircle(center, diameter, -((i - 1) * 32) \div segments)],
     holes |-> <<>>]

StrokeEach(polylines) ==
    [i \in 1..Len(polylines) |->
        strokePolyline(polylines[i].points, polylines[i].width)]

ValsOf(kept) == [i \in 1..Len(kept) |-> Val(kept[i])]

StrokedTracks(tracks) ==
    ValsOf(SelectSeq(StrokeEach(buildPolylines(tracks)), LAMBDA o : IsSome(o)))

FlashPads(flashes) ==
    [i \in 1..Len(flashes) |->
        approximateCircle(flashes[i].position,
                          IF flashes[i].diameterMm > 0 THEN flashes[i].diameterMm
                          ELSE DEFAULT_FLASH_DIAM_MM,
                          DEFAULT_CIRCLE_SEGMENTS)]

WoundRegions(kept) ==
    [i \in 1..Len(kept) |->
        [outer |-> ensureClockwise(kept[i].boundary),
         holes |-> [h \in 1..Len(kept[i].holes) |->
                      ensureCounterClockwise(kept[i].holes[h])]]]

RegionPolygons(regions) ==
    WoundRegions(SelectSeq(regions, LAMBDA r : Len(r.boundary) >= 3))

polygonizePrimitives(prims) ==
    StrokedTracks(prims.tracks) \o FlashPads(prims.flashes)
        \o RegionPolygons(prims.regions)

----------------------------------------------------------------------------
(* ========================= Stackup builder ============================ *)

DEFAULT_BOARD_WIDTH_MM == 100
DEFAULT_BOARD_HEIGHT_MM == 50

SetMin(S) == CHOOSE m \in S : \A n \in S : m <= n
SetMax(S) == CHOOSE m \in S : \A n \in S : n <= m
SeqRange(seq) == {seq[i] : i \in 1..Len(seq)}

\* Mutant of PrimitivePoints: arc centers and region holes are left out.
PrimitivePointsNoCenters(p) ==
    UNION {{t.start, t.end} : t \in SeqRange(p.tracks)}
      \cup UNION {{a.start, a.end} : a \in SeqRange(p.arcs)}
      \cup {f.position : f \in SeqRange(p.flashes)}
      \cup UNION {SeqRange(r.boundary) : r \in SeqRange(p.regions)}

\* The points updateBounds is called with for one layer's primitives.
PrimitivePoints(p) ==
    UNION {{t.start, t.end} : t \in SeqRange(p.tracks)}
      \cup UNION {{a.start, a.end, a.center} : a \in SeqRange(p.arcs)}
      \cup {f.position : f \in SeqRange(p.flashes)}
      \cup UNION {SeqRange(r.boundary) \cup UNION {SeqRange(h) : h \in SeqRange(r.holes)}
                    : r \in SeqRange(p.regions)}

BoxOf(pts) ==
    IF pts = {} THEN None
    ELSE Some([outer |-> <<Vec(SetMin({q.x : q \in pts}), SetMin({q.y : q \in pts})),
                           Vec(SetMax({q.x : q \in pts}), SetMin({q.y : q \in pts})),
                           Vec(SetMax({q.x : q \in pts}), SetMax({q.y : q \in pts})),
                           Vec(SetMin({q.x : q \in pts}), SetMax({q.y : q \in pts}))>>,
               holes |-> <<>>])

deriveOutlineFromLayers(layers) ==
    BoxOf(UNION {PrimitivePoints(l.primitives) : l \in SeqRange(layers)})

createRectanglePolygon(widthMm, heightMm) ==
    [outer |-> <<Vec(0, 0), Vec(widthMm, 0), Vec(widthMm, heightMm),
                 Vec(0, heightMm)>>,
     holes |-> <<>>]

ExtentsOf(xs, ys) ==
    [minX |-> SetMin(xs), minY |-> SetMin(ys),
     maxX |-> SetMax(xs), maxY |-> SetMax(ys),
     width |-> SetMax(xs) - SetMin(xs),
     height |-> SetMax(ys) - SetMin(ys)]

computeBoundingBox(poly) ==
    IF Len(poly.outer) = 0
    THEN [minX |-> 0, minY |-> 0,
          maxX |-> DEFAULT_BOARD_WIDTH_MM * MicronsPerMm,
          maxY |-> DEFAULT_BOARD_HEIGHT_MM * MicronsPerMm,
          width |-> DEFAULT_BOARD_WIDTH_MM * MicronsPerMm,
          height |-> DEFAULT_BOARD_HEIGHT_MM * MicronsPerMm]
    ELSE ExtentsOf({q.x : q \in SeqRange(poly.outer)},
                   {q.y : q \in SeqRange(poly.outer)})

\* String.toLowerCase on the role strings that are not lower case already.
RoleToLowerCase(role) ==
    CASE role = "Top_Silk" -> "top_silk"
      [] role = "BOTTOM_MASK" -> "bottom_mask"
      [] OTHER -> role

roleToSideAndKind(layer) ==
    LET role == RoleToLowerCase(layer.role)
    IN  CASE role = "top_copper" -> [side |-> Some("top"), kind |-> Some("copper")]
          [] role = "bottom_copper" -> [side |-> Some("bottom"), kind |-> Some("copper")]
          [] role = "inner_copper" -> [side |-> None, kind |-> Some("copper")]
          [] role = "top_mask" -> [side |-> Some("top"), kind |-> Some("soldermask")]
          [] role = "bottom_mask" -> [side |-> Some("bottom"), kind |-> Some("soldermask")]
          [] role = "top_silk" -> [side |-> Some("top"), kind |-> Some("silkscreen")]
          [] role = "bottom_silk" -> [side |-> Some("bottom"), kind |-> Some("silkscreen")]
          [] role = "outline" -> [side |-> None, kind |-> Some("outline")]
          [] OTHER -> [side |-> None, kind |-> None]

\* polys.filter(p => p.outer && p.outer.length >= 3)
DropJunk(polys) == SelectSeq(polys, LAMBDA q : Len(q.outer) >= 3)

\* Mutant of LayerPolygons: no fallback to the board rectangle.
LayerPolygonsNoFallback(prims, boardRectPoly) ==
    DropJunk(DropJunk(polygonizePrimitives(prims)))

\* Steps 1 to 4 of the layer loop: polygonize, drop junk (twice), fall back.
OrBoardRect(polys, boardRectPoly) ==
    IF Len(polys) = 0 THEN <<boardRectPoly>> ELSE polys

LayerPolygons(prims, boardRectPoly) ==
    OrBoardRect(DropJunk(DropJunk(polygonizePrimitives(prims))), boardRectPoly)

\* The layer loop: the LayerGeometry of every layer with a side and a kind.
RECURSIVE LayerGeometries(_, _)
LayerGeometry(layer, lk, boardRectPoly) ==
    IF ~IsSome(lk.kind) \/ ~IsSome(lk.side) THEN <<>>
    ELSE <<[name |-> layer.name, side |-> lk.side, kind |-> lk.kind,
            polygons |-> LayerPolygons(layer.primitives, boardRectPoly)]>>

LayerGeometries(layers, boardRectPoly) ==
    IF layers = <<>> THEN <<>>
    ELSE LayerGeometry(Head(layers), roleToSideAndKind(Head(layers)), boardRectPoly)
           \o LayerGeometries(Tail(layers), boardRectPoly)

OfKind(geoms, kind) == SelectSeq(geoms, LAMBDA g : g.kind = Some(kind))

AutoCopper(side, boardRectPoly) ==
    [name |-> IF side = "top" THEN "auto_top_copper" ELSE "auto_bottom_copper",
     side |-> Some(side), kind |-> Some("copper"),
     polygons |-> <<boardRectPoly>>]

\* Mutant of EnsureCopper: the synthesized layer is always added.
EnsureCopperAlways(copperLayers, side, boardRectPoly) ==
    Append(copperLayers, AutoCopper(side, boardRectPoly))

\* if (!copperLayers.some(l => l.side === side)) copperLayers.push(auto)
EnsureCopper(copperLayers, side, boardRectPoly) ==
    IF \E i \in 1..Len(copperLayers) : copperLayers[i].side = Some(side)
    THEN copperLayers
    ELSE Append(copperLayers, AutoCopper(side, boardRectPoly))

RECURSIVE flattenDrills(_)
flattenDrills(parsedDrills) ==
    IF parsedDrills = <<>> THEN <<>>
    ELSE Head(parsedDrills).holes \o flattenDrills(Tail(parsedDrills))

\* The model assembled from the board size, the outline polygon and the
\* layer geometries.
Assemble(params, widthMm, heightMm, outlinePoly, geoms) ==
    [widthMm |-> widthMm,
     heightMm |-> heightMm,
     thicknessMm |-> params.boardThicknessMm,
     copperLayers |-> EnsureCopper(EnsureCopper(OfKind(geoms, "copper"),
                                                "top", outlinePoly),
                                   "bottom", outlinePoly),
     maskLayers |-> OfKind(geoms, "soldermask"),
     silkLayers |-> OfKind(geoms, "silkscreen"),
     outline |-> [name |-> "outline", side |-> None, kind |-> Some("outline"),
                  polygons |-> <<outlinePoly>>],
     drills |-> flattenDrills(params.parsedDrills)]

BuildOn(params, widthMm, heightMm, outlinePoly) ==
    Assemble(params, widthMm, heightMm, outlinePoly,
             LayerGeometries(params.parsedGerbers, outlinePoly))

\* The branch on the derived outline: its bounding box, or the defaults.
BuildFrom(params, derived) ==
    IF IsSome(derived) /\ Len(Val(derived).outer) >= 2
    THEN BuildOn(params, computeBoundingBox(Val(derived)).width,
                 computeBoundingBox(Val(derived)).height, Val(derived))
    ELSE BuildOn(params, DEFAULT_BOARD_WIDTH_MM * MicronsPerMm,
                 DEFAULT_BOARD_HEIGHT_MM * MicronsPerMm,
                 createRectanglePolygon(DEFAULT_BOARD_WIDTH_MM * MicronsPerMm,
                                        DEFAULT_BOARD_HEIGHT_MM * MicronsPerMm))

buildPcbGeometry(params) ==
    BuildFrom(params, deriveOutlineFromLayers(params.parsedGerbers))

----------------------------------------------------------------------------
(* ========================= Pipeline =================================== *)
(* An archive is [ok, files]: ok tells whether JSZip.loadAsync resolves;   *)
(* a file is [rawName, dir, readable, lines]: readable tells whether       *)
(* file.async("text") resolves, lines is its text as the parsers' lines.   *)

\* Backslashes to slashes, then a leading "./" and a leading "/" removed.
normalizeZipPath(path) ==
    LET p1 == [i \in 1..Len(path) |-> IF path[i] = "\\" THEN "/" ELSE path[i]]
        p2 == IF startsWithAt(p1, <<".", "/">>, 1) THEN SubSeq(p1, 3, Len(p1)) ELSE p1
    IN  IF startsWithAt(p2, <<"/">>, 1) THEN SubSeq(p2, 2, Len(p2)) ELSE p2

\* The ZipEntry list of an opened archive: its files that are no
\* directories, each holding the file it reads from.
unzipGerbersZip(archive) ==
    LET idxs == SelectSeq([i \in 1..Len(archive.files) |-> i],
                          LAMBDA i : ~archive.files[i].dir)
    IN  [k \in 1..Len(idxs) |->
            [name |-> normalizeZipPath(archive.files[idxs[k]].rawName),
             id |-> idxs[k]]]

\* normalizeTextContent as the parsers see it, on the lines of a text that
\* has no byte-order mark: the blank lines at both ends are dropped.
RECURSIVE DropLeadingBlank(_)
DropLeadingBlank(lines) ==
    IF lines # <<>> /\ Head(lines).kind = "blank"
    THEN DropLeadingBlank(Tail(lines))
    ELSE lines

normalizeTextLines(lines) ==
    Reverse(DropLeadingBlank(Reverse(DropLeadingBlank(lines))))

\* The parser's lengths (nm) in the unit of the planned geometry.
ToMicrons(n) == RoundDiv(n, NmPerMm \div MicronsPerMm)
PointToMicrons(q) == Vec(ToMicrons(q.x), ToMicrons(q.y))
RingToMicrons(ring) == [i \in 1..Len(ring) |-> PointToMicrons(ring[i])]

PrimitivesToMicrons(p) ==
    [tracks |-> [i \in 1..Len(p.tracks) |->
                    [start |-> PointToMicrons(p.tracks[i].start),
                     end |-> PointToMicrons(p.tracks[i].end),
                     width |-> ToMicrons(p.tracks[i].width)]],
     arcs |-> p.arcs,
     flashes |-> [i \in 1..Len(p.flashes) |->
                    [p.flashes[i] EXCEPT !.position = PointToMicrons(@),
                                         !.diameterMm = ToMicrons(@)]],
     regions |-> [i \in 1..Len(p.regions) |->
                    [boundary |-> RingToMicrons(p.regions[i].boundary),
                     holes |-> [h \in 1..Len(p.regions[i].holes) |->
                                  RingToMicrons(p.regions[i].holes[h])]]]]

\* The loop body for one Gerber file whose text was read.
ParsedGerberLayer(g, lines) ==
    [name |-> g.name, role |-> g.role,
     primitives |-> PrimitivesToMicrons(parseGerberFile(normalizeTextLines(lines)))]

\* The loop body for one drill file whose text was read.
ParsedDrillData(d, lines) == [holes |-> parseDrillFile(normalizeTextLines(lines))]

----------------------------------------------------------------------------
(* ========================= Text normalizer ============================ *)
(* A text is a sequence of characters; Bom stands for U+FEFF.              *)

Bom == "BOM"

\* The characters of the alphabet that String.prototype.trim removes
\* (white space, which includes U+FEFF, and line terminators).
TrimmedChars == {" ", "\n", "\r", Bom}

stripBom(text) ==
    IF Len(text) > 0 /\ text[1] = Bom THEN Tail(text) ELSE text

\* text.replace(/\r\n/g, "\n")
RECURSIVE ReplaceCrLf(_)
ReplaceCrLf(text) ==
    IF text = <<>> THEN <<>>
    ELSE IF Len(text) >= 2 /\ text[1] = "\r" /\ text[2] = "\n"
         THEN <<"\n">> \o ReplaceCrLf(SubSeq(text, 3, Len(text)))
         ELSE <<Head(text)>> \o ReplaceCrLf(Tail(text))

normalizeLineEndings(text) ==
    LET noCrLf == ReplaceCrLf(text)
    IN  [i \in 1..Len(noCrLf) |-> IF noCrLf[i] = "\r" THEN "\n" ELSE noCrLf[i]]

\* text.split("\n")
RECURSIVE SplitLines(_)
SplitLines(text) ==
    IF \A i \in 1..Len(text) : text[i] # "\n" THEN <<text>>
    ELSE LET k == CHOOSE i \in 1..Len(text) :
                      text[i] = "\n" /\ \A j \in 1..(i - 1) : text[j] # "\n"
         IN  <<SubSeq(text, 1, k - 1)>> \o SplitLines(SubSeq(text, k + 1, Len(text)))

\* lines.join("\n")
RECURSIVE JoinLines(_)
JoinLines(lines) ==
    IF lines = <<>> THEN <<>>
    ELSE IF Len(lines) = 1 THEN lines[1]
    ELSE lines[1] \o <<"\n">> \o JoinLines(Tail(lines))

\* lines[i].trim() === ""
IsBlank(line) == \A i \in 1..Len(line) : line[i] \in TrimmedChars

\* The two loops of trimEmptyEdges: the first line that is not blank (one
\* past the end when all are), and the last one from there on.
TrimStart(lines) ==
    SetMin({i \in 1..Len(lines) : ~IsBlank(lines[i])} \cup {Len(lines) + 1})

TrimEnd(lines, start) ==
    IF start > Len(lines) THEN Len(lines)
    ELSE SetMax({i \in start..Len(lines) : ~IsBlank(lines[i])})

TrimLines(text, lines, start, end) ==
    IF start = 1 /\ end = Len(lines) THEN text
    ELSE JoinLines(SubSeq(lines, start, end))

trimEmptyEdges(text) ==
    TrimLines(text, SplitLines(text), TrimStart(SplitLines(text)),
              TrimEnd(SplitLines(text), TrimStart(SplitLines(text))))

normalizeTextContent(raw) == trimEmptyEdges(normalizeLineEndings(stripBom(raw)))

----------------------------------------------------------------------------
(* ========================= State machines ============================ *)
(* The idle values a specification gives to the variables of the other     *)
(* subsystems.                                                             *)

IdleGerber ==
    /\ gState = InitParserState
    /\ gPhase = "idle"
    /\ gCount = 0
    /\ gLast = None
    /\ gResult = None

IdleProcs == procs = <<>>

IdleBool ==
    /\ bOp = "none"
    /\ bA = <<>>
    /\ bB = <<>>
    /\ bFailAt = 0
    /\ bPhase = "idle"
    /\ bOut = <<>>
    /\ bNothing = FALSE

IdleClassify ==
    /\ cEntries = <<>>
    /\ cHints = <<>>
    /\ cPos = 0
    /\ cBuckets = EmptyBuckets
    /\ cPhase = "idle"

IdleStackup ==
    /\ sParams = [parsedGerbers |-> <<>>, parsedDrills |-> <<>>,
                  boardThicknessMm |-> 0]
    /\ sPhase = "idle"
    /\ sModel = None

IdlePipeline ==
    /\ pArchive = [ok |-> FALSE, files |-> <<>>]
    /\ pOptions = [layerHints |-> <<>>, boardThicknessMm |-> None]
    /\ pPhase = "idle"
    /\ pOpened = FALSE
    /\ pClassified = EmptyBuckets
    /\ pReads = 0
    /\ pGerbers = <<>>
    /\ pDrills = <<>>
    /\ pResult = None

IdlePolygonize ==
    /\ zPrims = <<>>
    /\ zPhase = "idle"
    /\ zLines = <<>>
    /\ zPolys = <<>>

IdleDrill ==
    /\ dState = InitDrillState
    /\ dPhase = "idle"
    /\ dLines = <<>>
    /\ dResult = None

IdleNormalize ==
    /\ txText = <<>>
    /\ txPrev = <<>>
    /\ txCalls = -1

IdleBuildPolylines ==
    /\ bpTracks = <<>>
    /\ bpPhase = "idle"
    /\ bpI = 0
    /\ bpVisited = <<>>
    /\ bpPoints = <<>>
    /\ bpWidth = 0
    /\ bpPolylines = <<>>
    /\ bpMarks = <<>>
    /\ bpPushed = {}

----------------------------------------------------------------------------
(* SpecGerber: one parseGerberFile call reading its input line by line.    *)

GerberCoords == {Coord(FALSE, 1), Coord(TRUE, 2)}

\* Lines that are neither a parameter block, a region marker, an aperture
\* select nor a coordinate / operation command.
UnrecognizedLines ==
    {BlankLine, CommentLine,
     Cmd("G01", None, None, None), Cmd("M02", None, None, None),
     Cmd("G36junk", None, None, None)}

ParamLines ==
    {FSLine(TRUE, 2, 3), FSLine(FALSE, 0, 0),
     MOLine("MM"), MOLine("IN"), MOLine("??"),
     ADLine(TRUE, 10, "C", Some(1), None),
     ADLine(TRUE, 10, "R", Some(3), Some(2)),
     ADLine(TRUE, 11, "P", None, None),
     ADLine(FALSE, 0, "", None, None),
     OtherParamLine}

RegionMarkerLines == {Cmd("G36", None, None, None), Cmd("G37", None, None, None)}

SelectLines ==
    {Cmd("", None, None, Some(<<1, 0>>)), Cmd("G54", None, None, Some(<<1, 1>>)),
     Cmd("", None, None, Some(<<0, 1, 2>>))}

OperationLines ==
    {Cmd("", Some(Coord(FALSE, 1)), Some(Coord(FALSE, 1)), Some(<<0, 1>>)),
     Cmd("G01", Some(Coord(TRUE, 2)), None, Some(<<1>>)),
     Cmd("", None, Some(Coord(TRUE, 2)), Some(<<0, 1>>)),
     Cmd("", Some(Coord(FALSE, 1)), None, Some(<<0, 2>>)),
     Cmd("", Some(Coord(TRUE, 2)), Some(Coord(FALSE, 1)), Some(<<0, 3>>)),
     Cmd("", Some(Coord(FALSE, 1)), None, None),
     Cmd("", None, None, Some(<<0, 5>>)),
     Cmd("", None, Some(Coord(FALSE, 1)), Some(<<0>>)),
     Cmd("", Some(Coord(TRUE, 2)), None, Some(<<1, 2, 3, 4>>))}

GerberLines ==
    UnrecognizedLines \cup ParamLines \cup RegionMarkerLines
        \cup SelectLines \cup OperationLines

InitGerber ==
    /\ IdleBuildPolylines
    /\ IdleNormalize
    /\ IdleDrill
    /\ IdlePolygonize
    /\ IdlePipeline
    /\ IdleStackup
    /\ IdleClassify
    /\ IdleProcs
    /\ IdleBool
    /\ gState = InitParserState
    /\ gPhase = "parsing"
    /\ gCount = 0
    /\ gLast = None
    /\ gResult = None

\* The loop body of parseGerberFile on the next line of the file.
GerberStep(line) ==
    /\ gPhase = "parsing"
    /\ gCount < MaxLines
    /\ gState' = ProcessLine(line, gState)
    /\ gCount' = gCount + 1
    /\ gLast' = Some(line)
    /\ UNCHANGED <<gPhase, gResult>>
    /\ UNCHANGED notGerber

\* End of input: finalise an open region and return the primitives.
GerberFinish ==
    /\ gPhase = "parsing"
    /\ gState' = FinalizeParse(gState)
    /\ gPhase' = "done"
    /\ gResult' = Some(PrimitivesOf(FinalizeParse(gState)))
    /\ UNCHANGED <<gCount, gLast>>
    /\ UNCHANGED notGerber

NextGerber ==
    \/ \E line \in GerberLines : GerberStep(line)
    \/ GerberFinish

vars == <<gerberVars, procs, boolVars, classVars, stackVars, pipeVars, polyVars, drillVars, normVars, lineVars>>

SpecGerber == InitGerber /\ [][NextGerber]_vars

----------------------------------------------------------------------------
(* Claims on the Gerber interpreter *)

\* The value returned is a GerberPrimitives record of four lists.
IsPrimitives(r) ==
    /\ DOMAIN r = {"tracks", "arcs", "flashes", "regions"}
    /\ \A f \in DOMAIN r : DOMAIN r[f] = 1..Len(r[f])

\* C1: for every sequence of input lines, malformed and unrecognized ones
\* included, the parse can always take the next line and can always finish,
\* and it returns a GerberPrimitives value; a line that is not a parameter
\* block, a region marker, an aperture select or a coordinate / operation
\* command leaves the whole parser state unchanged.
C1_ParserNeverFailsAndSkipsUnknown ==
    /\ [](gPhase = "parsing" =>
            /\ ENABLED GerberFinish
            /\ gCount < MaxLines => \A line \in GerberLines : ENABLED GerberStep(line))
    /\ [](gPhase = "done" => IsSome(gResult) /\ IsPrimitives(Val(gResult)))
    /\ [][(gCount' = gCount + 1 /\ Val(gLast') \in UnrecognizedLines)
            => gState' = gState]_vars

\* C1 witness: an unrecognized command line (M02) was read while an aperture
\* was selected and a track had been drawn, and the parse went on.
C1_Witness ==
    /\ gLast = Some(Cmd("M02", None, None, None))
    /\ IsSome(gState.currentAperture)
    /\ Len(gState.tracks) = 1
    /\ gState.x # 0

\* The line just read is an operation with D code 1 (D01, D1, D001).
DrawLineRead ==
    /\ gCount' = gCount + 1
    /\ Val(gLast').kind = "cmd"
    /\ ParseDCode(Val(gLast').d) = Some(1)

\* The position an operation line names: its coordinates decoded in the
\* current format, the pen's coordinate where the line gives none.
TargetOf(line, st) ==
    [x |-> IF IsSome(line.x) THEN decodeCoord(Val(line.x), st) ELSE st.x,
     y |-> IF IsSome(line.y) THEN decodeCoord(Val(line.y), st) ELSE st.y]

\* The width the claim gives a track: the effective diameter of the
\* aperture, 0.2 when it has none.
ClaimedTrackWidth(ap) ==
    IF IsSome(ap.diameterMm) THEN Val(ap.diameterMm) ELSE NmPerMm \div 5

\* C17: outside region mode a draw with no aperture selected adds no track
\* and moves the pen to the new position; a draw with a current aperture
\* adds exactly one track, from the pen position before the operation to
\* the new position, of the width of that aperture's effective diameter
\* (0.2 when it has none), and moves the pen there.
C17_DrawNeedsAperture ==
    [][(DrawLineRead /\ ~gState.inRegion) =>
          /\ gState'.x = TargetOf(Val(gLast'), gState).x
          /\ gState'.y = TargetOf(Val(gLast'), gState).y
          /\ IF IsSome(gState.currentAperture)
             THEN gState'.tracks =
                     Append(gState.tracks,
                            [start |-> [x |-> gState.x, y |-> gState.y],
                             end |-> TargetOf(Val(gLast'), gState),
                             width |-> ClaimedTrackWidth(
                                 gState.heap[Val(gState.currentAperture)])])
             ELSE gState'.tracks = gState.tracks]_vars

\* C17 witness: a draw with no aperture moved the pen and left no track,
\* then a draw with the parameterless aperture D11 selected drew a track
\* of width 0.2 from there.
C17_Witness ==
    /\ gCount = 4
    /\ gLast = Some(Cmd("", None, Some(Coord(TRUE, 2)), Some(<<0, 1>>)))
    /\ Len(gState.tracks) = 1
    /\ gState.tracks[1].width = NmPerMm \div 5
    /\ gState.tracks[1].start.x # 0
    /\ gState.tracks[1].start # gState.tracks[1].end

\* The definition the aperture table holds under a code.
Registered(st, code) == st.heap[MapRef(st.apertures, code)]

\* C20 (as claimed): at every point of a parse the current aperture is
\* none, or its code is in the aperture table and the definition the table
\* holds under that code is the current aperture.
C20_CurrentApertureIsTableEntry ==
    (gPhase = "parsing" /\ IsSome(gState.currentAperture)) =>
        /\ MapHas(gState.apertures, gState.heap[Val(gState.currentAperture)].code)
        /\ Registered(gState, gState.heap[Val(gState.currentAperture)].code)
              = gState.heap[Val(gState.currentAperture)]

\* The line just read is an aperture select: a command whose D code is 10
\* or more.
SelectLineRead ==
    /\ gCount' = gCount + 1
    /\ Val(gLast').kind = "cmd"
    /\ IsSome(ParseDCode(Val(gLast').d))
    /\ Val(ParseDCode(Val(gLast').d)) >= 10

\* C21: an aperture select for a defined code makes the definition the
\* table holds under that code the current aperture, one for an undefined
\* code leaves the current aperture as it is, and either way nothing else
\* of the parser state changes (no pen move, no primitive); once an
\* aperture is selected no line of any kind makes the current aperture none.
C21_SelectRepointsAndNeverClears ==
    /\ [][SelectLineRead =>
             gState' = [gState EXCEPT !.currentAperture =
                          IF MapHas(gState.apertures,
                                    Val(ParseDCode(Val(gLast').d)))
                          THEN Some(MapRef(gState.apertures,
                                           Val(ParseDCode(Val(gLast').d))))
                          ELSE @]]_vars
    /\ [][IsSome(gState.currentAperture) => IsSome(gState'.currentAperture)]_vars

\* C21 witness: D10 was selected, then a select of the undefined code 12
\* was read and D10's definition is still the current aperture.
C21_Witness ==
    /\ gCount = 3
    /\ gLast = Some(Cmd("", None, None, Some(<<0, 1, 2>>)))
    /\ IsSome(gState.currentAperture)
    /\ gState.heap[Val(gState.currentAperture)].code = 10
    /\ ~MapHas(gState.apertures, 12)

\* The line just read carries an operation code below 10 that is neither
\* a draw nor a move (D03, D05, D00, ...).
OtherOperationRead ==
    /\ gCount' = gCount + 1
    /\ Val(gLast').kind = "cmd"
    /\ IsSome(ParseDCode(Val(gLast').d))
    /\ Val(ParseDCode(Val(gLast').d)) \in (0..9) \ {1, 2}

\* C23: while the parser is in region mode no step adds a track or a
\* flash, and a flash or any other operation code that is neither a draw
\* nor a move changes nothing but the pen position.
C23_RegionModeEmitsNoTrackOrFlash ==
    /\ [][gState.inRegion =>
             /\ gState'.tracks = gState.tracks
             /\ gState'.flashes = gState.flashes]_vars
    /\ [][(OtherOperationRead /\ gState.inRegion) =>
             gState' = [gState EXCEPT !.x = TargetOf(Val(gLast'), gState).x,
                                      !.y = TargetOf(Val(gLast'), gState).y]]_vars

\* C23 witness: with an aperture selected and region mode on, a flash line
\* was read; it moved the pen and no flash was added.
C23_Witness ==
    /\ gCount = 4
    /\ gState.inRegion
    /\ IsSome(gState.currentAperture)
    /\ gLast = Some(Cmd("", Some(Coord(TRUE, 2)), Some(Coord(FALSE, 1)),
                        Some(<<0, 3>>)))
    /\ gState.x < 0
    /\ gState.flashes = <<>>
    /\ gState.tracks = <<>>

\* The line just read is a unit block (%MO...*%).
UnitBlockRead ==
    /\ gCount' = gCount + 1
    /\ Val(gLast').kind = "param"
    /\ Val(gLast').t = "MO"

\* The scale a unit block names: 1.0 for MOMM and 25.4 for MOIN (in
\* tenths), the scale in force for anything else.
NamedScale(b, st) ==
    IF b.unit = "MM" THEN 10 ELSE IF b.unit = "IN" THEN 254 ELSE st.unitScale

\* new = old * newScale / oldScale for an optional size.
IsRescaled(new, old, newScale, oldScale) ==
    /\ IsSome(new) = IsSome(old)
    /\ IsSome(old) => Val(new) * oldScale = Val(old) * newScale

\* C24: a unit block that changes the unit scale multiplies the sizes of
\* every aperture of the table by newScale / oldScale and sets the scale,
\* leaving the pen and the emitted tracks, flashes and regions alone; a
\* unit block naming the unit in force, or an unrecognized unit, changes
\* nothing.
C24_UnitBlockRescalesApertures ==
    /\ [][(UnitBlockRead /\ NamedScale(Val(gLast'), gState) # gState.unitScale) =>
             /\ gState'.unitScale = NamedScale(Val(gLast'), gState)
             /\ gState'.apertures = gState.apertures
             /\ \A i \in 1..Len(gState.apertures) :
                    LET old == gState.heap[gState.apertures[i][2]]
                        new == gState'.heap[gState.apertures[i][2]]
                    IN  /\ IsRescaled(new.diameterMm, old.diameterMm,
                                      gState'.unitScale, gState.unitScale)
                        /\ IsRescaled(new.widthMm, old.widthMm,
                                      gState'.unitScale, gState.unitScale)
                        /\ IsRescaled(new.heightMm, old.heightMm,
                                      gState'.unitScale, gState.unitScale)
                        /\ new.code = old.code
                        /\ new.shape = old.shape
             /\ gState'.x = gState.x
             /\ gState'.y = gState.y
             /\ gState'.tracks = gState.tracks
             /\ gState'.flashes = gState.flashes
             /\ gState'.regions = gState.regions
             /\ gState'.regionPaths = gState.regionPaths
             /\ gState'.currentPath = gState.currentPath]_vars
    /\ [][(UnitBlockRead /\ NamedScale(Val(gLast'), gState) = gState.unitScale) =>
             gState' = gState]_vars

\* C24 witness: a 3 x 2 rectangle aperture was defined in millimetres, a
\* flash was emitted with it, and MOIN then rescaled the aperture by 25.4
\* while the flash kept its size.
C24_Witness ==
    /\ gCount = 4
    /\ gLast = Some(MOLine("IN"))
    /\ gState.unitScale = 254
    /\ Len(gState.apertures) = 1
    /\ gState.heap[gState.apertures[1][2]].widthMm = Some(3 * 254 * Pow10(5))
    /\ gState.heap[gState.apertures[1][2]].heightMm = Some(2 * 254 * Pow10(5))
    /\ Len(gState.flashes) = 1
    /\ gState.flashes[1].widthMm = Some(3 * 10 * Pow10(5))

----------------------------------------------------------------------------
(* SpecInterleave: several parses in flight at once, their line loops      *)
(* interleaved in every order.  Each parse works on the state object that  *)
(* its own call created (const state = {...} / the locals toolDiameters,   *)
(* currentTool, holes).                                                    *)

Procs == {1, 2}
ParseKinds == {"gerber", "drill"}

\* Maximum number of lines of one interleaved parse.
MaxProcLines == 3

InterleaveGerberLines ==
    {ADLine(TRUE, 10, "C", Some(1), None),
     Cmd("", None, None, Some(<<1, 0>>)),
     Cmd("", Some(Coord(FALSE, 1)), Some(Coord(FALSE, 1)), Some(<<0, 1>>))}

InterleaveDrillLines ==
    {ToolDef(TRUE, <<0, 1>>, Some(300)), ToolChange(TRUE, <<0, 1>>),
     DrillCoord(TRUE, Some(1), Some(1))}

LinesOfKind(k) ==
    IF k = "gerber" THEN InterleaveGerberLines ELSE InterleaveDrillLines

InitStateOfKind(k) == IF k = "gerber" THEN InitParserState ELSE InitDrillState

StepOfKind(k, line, st) ==
    IF k = "gerber" THEN ProcessLine(line, st) ELSE ProcessDrillLine(line, st)

ResultOfKind(k, st) ==
    IF k = "gerber" THEN PrimitivesOf(FinalizeParse(st)) ELSE st.holes

\* What the parse returns when it runs alone on the same lines.
RunAlone(k, ls) == IF k = "gerber" THEN parseGerberFile(ls) ELSE parseDrillFile(ls)

\* Mutant of StateOwner: one module-level state object per parser module,
\* shared by all parses of that kind.
StateOwnerShared(ps, p) ==
    CHOOSE q \in Procs :
        /\ ps[q].kind = ps[p].kind
        /\ \A r \in Procs : ps[r].kind = ps[p].kind => q <= r

\* The parse whose call created the state object that parse p reads and
\* writes: its own.
StateOwner(ps, p) == p

InitInterleave ==
    /\ IdleBuildPolylines
    /\ IdleNormalize
    /\ IdleDrill
    /\ IdlePolygonize
    /\ IdlePipeline
    /\ IdleStackup
    /\ IdleClassify
    /\ IdleGerber
    /\ IdleBool
    /\ \E kinds \in [Procs -> ParseKinds] :
          procs = [p \in Procs |->
                     [kind |-> kinds[p], phase |-> "idle", consumed |-> <<>>,
                      state |-> InitStateOfKind(kinds[p]), result |-> None]]

\* Entry of parseGerberFile / parseDrillFile: the state object is created.
ParseStart(p) ==
    /\ procs[p].phase = "idle"
    /\ procs' = [procs EXCEPT
                    ![StateOwner(procs, p)].state = InitStateOfKind(procs[p].kind),
                    ![p].phase = "parsing"]
    /\ UNCHANGED notProcs

\* One iteration of the line loop of parse p.
ParseLineStep(p, line) ==
    /\ procs[p].phase = "parsing"
    /\ Len(procs[p].consumed) < MaxProcLines
    /\ LET o == StateOwner(procs, p)
       IN  procs' = [procs EXCEPT
                        ![o].state = StepOfKind(procs[p].kind, line, procs[o].state),
                        ![p].consumed = Append(@, line)]
    /\ UNCHANGED notProcs

\* The parse returns.
ParseReturn(p) ==
    /\ procs[p].phase = "parsing"
    /\ procs' = [procs EXCEPT
                    ![p].phase = "done",
                    ![p].result = Some(ResultOfKind(procs[p].kind,
                                          procs[StateOwner(procs, p)].state))]
    /\ UNCHANGED notProcs

NextInterleave ==
    \E p \in Procs :
        \/ ParseStart(p)
        \/ \E line \in LinesOfKind(procs[p].kind) : ParseLineStep(p, line)
        \/ ParseReturn(p)

SpecInterleave == InitInterleave /\ [][NextInterleave]_vars

\* C10: interleaved parses do not interfere: each parse that has returned
\* returned exactly what it returns when run alone on its own lines, and at
\* every moment the state object of a running parse is the one its own lines
\* alone produce.
C10_ParsesDoNotInterfere ==
    \A p \in Procs :
        /\ procs[p].phase = "done" =>
              procs[p].result = Some(RunAlone(procs[p].kind, procs[p].consumed))
        /\ procs[p].phase = "parsing" =>
              procs[p].state = IF procs[p].kind = "gerber"
                               THEN RunLines(procs[p].consumed, InitParserState)
                               ELSE RunDrillLines(procs[p].consumed, InitDrillState)

\* C10 witness: two Gerber parses were interleaved line by line, both have
\* returned, and each drew its own track.
C10_Witness ==
    /\ \A p \in Procs :
          /\ procs[p].kind = "gerber"
          /\ procs[p].phase = "done"
          /\ Len(procs[p].consumed) = MaxProcLines
          /\ Len(Val(procs[p].result).tracks) = 1

----------------------------------------------------------------------------
(* SpecBool: one call of unionPolygons / subtractPolygons /                *)
(* intersectPolygons on operands drawn from a small catalogue, with the    *)
(* engine throwing at a chosen call or not at all.                         *)

\* Maximum number of polygons in an operand.
MaxPolys == 2

SquareAt(c) == Poly(<<Pt(c, 0), Pt(c + 1, 0), Pt(c + 1, 1), Pt(c, 1)>>, <<>>)

BoolPolys ==
    {SquareAt(0), SquareAt(2),
     Poly(<<Pt(0, 0), Pt(2, 0), Pt(2, 1), Pt(0, 1)>>, <<<<Pt(0, 0), Pt(1, 1)>>>>),
     Poly(<<Pt(0, 0), Pt(1, 0)>>, <<>>)}

BoolOperands == UNION {[1..n -> BoolPolys] : n \in 0..MaxPolys}

\* The second operand: up to two polygons (one union call of its own).
SecondOperands == UNION {[1..n -> BoolPolys] : n \in 0..2}

IsNonDegenerate(poly) == Len(poly.outer) >= 3

InitBool ==
    /\ IdleBuildPolylines
    /\ IdleNormalize
    /\ IdleDrill
    /\ IdlePolygonize
    /\ IdlePipeline
    /\ IdleStackup
    /\ IdleClassify
    /\ IdleGerber
    /\ IdleProcs
    /\ bOp \in {"union", "subtract", "intersect"}
    /\ bA \in BoolOperands
    /\ bB \in IF bOp = "union" THEN {<<>>} ELSE SecondOperands
    /\ bFailAt \in 0..(MaxPolys + 1)
    /\ bPhase = "called"
    /\ bOut = <<>>
    /\ bNothing = FALSE

BoolReturn(op, out, emptyNull) ==
    /\ bPhase = "called"
    /\ bOp = op
    /\ bOut' = out
    /\ bNothing' = EngineGaveNothing(op, bA, bB, bFailAt, emptyNull)
    /\ bPhase' = "done"
    /\ UNCHANGED <<bOp, bA, bB, bFailAt>>
    /\ UNCHANGED notBool

RunUnion ==
    \E emptyNull \in BOOLEAN :
        BoolReturn("union", unionPolygons(bA, bFailAt, emptyNull), emptyNull)

RunSubtract ==
    \E emptyNull \in BOOLEAN :
        BoolReturn("subtract", subtractPolygons(bA, bB, bFailAt, emptyNull), emptyNull)

RunIntersect ==
    \E emptyNull \in BOOLEAN :
        BoolReturn("intersect", intersectPolygons(bA, bB, bFailAt, emptyNull), emptyNull)

NextBool == RunUnion \/ RunSubtract \/ RunIntersect

SpecBool == InitBool /\ [][NextBool]_vars

\* C2 (as claimed): subtractPolygons(A, A) returns an empty list for every
\* list A of non-degenerate polygons, the engine computing the exact
\* difference without throwing.
C2_SubtractSelfIsEmpty ==
    (/\ bPhase = "done"
     /\ bOp = "subtract"
     /\ bB = bA
     /\ bFailAt = 0
     /\ \A i \in 1..Len(bA) : IsNonDegenerate(bA[i]))
        => bOut = <<>>

C13_ResultRingsHaveThreePoints ==
    bPhase = "done" => \A i \in 1..Len(bOut) : IsNonDegenerate(bOut[i])

----------------------------------------------------------------------------
(* ========================= classifyFiles ============================== *)

MaxEntries == 2

\* File names of archive entries: a top copper layer in a directory, an
\* upper-case bottom copper layer, a drill file, a Gerber extension with a
\* drill word, a text file, a Gerber the heuristics do not know.
EntryNames ==
    {<<"a", "/", "F", "_", "C", "u", ".", "g", "b", "r">>,
     <<"B", ".", "G", "B", "L">>,
     <<"x", ".", "d", "r", "l">>,
     <<"v", "i", "a", ".", "g", "b", "r">>,
     <<"r", "e", "a", "d", "m", "e">>,
     <<"m", ".", "g", "b", "r">>}

\* Hints: an exact name, a wildcard over an extension, an exact name in
\* another case, a wildcard on both sides.
HintCatalogue ==
    {[pattern |-> <<"F", "_", "C", "u", ".", "g", "b", "r">>, role |-> "bottom_copper"],
     [pattern |-> <<"*", ".", "g", "b", "r">>, role |-> "top_silk"],
     [pattern |-> <<"f", "_", "c", "u", ".", "g", "b", "r">>, role |-> "outline"],
     [pattern |-> <<"*", "C", "u", "*">>, role |-> "inner_copper"]}

NameLists == UNION {[1..n -> EntryNames] : n \in 0..MaxEntries}
\* No hints, one hint, or two hints in either order.
HintLists == UNION {[1..n -> HintCatalogue] : n \in 0..2}

InitClassify ==
    /\ IdleBuildPolylines
    /\ IdleNormalize
    /\ IdleDrill
    /\ IdlePolygonize
    /\ IdlePipeline
    /\ IdleStackup
    /\ IdleGerber
    /\ IdleProcs
    /\ IdleBool
    /\ \E names \in NameLists :
          cEntries = [i \in 1..Len(names) |-> [name |-> names[i], id |-> i]]
    /\ cHints \in HintLists
    /\ cPos = 0
    /\ cBuckets = EmptyBuckets
    /\ cPhase = "running"

\* One iteration of the loop of classifyFiles.
ClassifyStep ==
    /\ cPhase = "running"
    /\ cPos < Len(cEntries)
    /\ cBuckets' = ClassifyEntry(cEntries[cPos + 1], cHints, cBuckets)
    /\ cPos' = cPos + 1
    /\ UNCHANGED <<cEntries, cHints, cPhase>>
    /\ UNCHANGED notClassify

\* return { gerbers, drills, ignored }
ClassifyReturn ==
    /\ cPhase = "running"
    /\ cPos = Len(cEntries)
    /\ cPhase' = "done"
    /\ UNCHANGED <<cEntries, cHints, cPos, cBuckets>>
    /\ UNCHANGED notClassify

NextClassify == ClassifyStep \/ ClassifyReturn

SpecClassify == InitClassify /\ [][NextClassify]_vars

\* The entries held by a bucket, as positions of the input list.
IdsOf(bucket) == [i \in 1..Len(bucket) |-> bucket[i].rawEntry.id]
IgnoredIds == [i \in 1..Len(cBuckets.ignored) |-> cBuckets.ignored[i].id]
Range(f) == {f[i] : i \in DOMAIN f}
Increasing(f) == \A i, j \in DOMAIN f : i < j => f[i] < f[j]

\* C7: classifyFiles places every entry in exactly one bucket: after k
\* iterations the three buckets hold the first k entries, each once, their
\* sizes sum to k, every bucket is in input order and carries the entry it
\* was made from; the loop can always take its next step (no entry raises an
\* error) and the call returns with all entries placed.
C7_EveryEntryInExactlyOneBucket ==
    LET g == IdsOf(cBuckets.gerbers)
        d == IdsOf(cBuckets.drills)
        ig == IgnoredIds
    IN  /\ cPhase = "running" => ENABLED NextClassify
        /\ cPhase = "done" => cPos = Len(cEntries)
        /\ Len(g) + Len(d) + Len(ig) = cPos
        /\ Range(g) \cup Range(d) \cup Range(ig) = 1..cPos
        /\ Range(g) \cap Range(d) = {}
        /\ Range(g) \cap Range(ig) = {}
        /\ Range(d) \cap Range(ig) = {}
        /\ Increasing(g) /\ Increasing(d) /\ Increasing(ig)
        /\ \A i \in DOMAIN cBuckets.gerbers :
              /\ cBuckets.gerbers[i].rawEntry = cEntries[g[i]]
              /\ cBuckets.gerbers[i].name = cEntries[g[i]].name
        /\ \A i \in DOMAIN cBuckets.drills :
              /\ cBuckets.drills[i].rawEntry = cEntries[d[i]]
              /\ cBuckets.drills[i].name = cEntries[d[i]].name
        /\ \A i \in DOMAIN cBuckets.ignored : cBuckets.ignored[i] = cEntries[ig[i]]

\* classifyFiles has returned with an entry in each of two buckets, one of
\* them a Gerber-named file taken as a drill file.
C7_Witness ==
    /\ cPhase = "done"
    /\ Len(cEntries) = 2
    /\ Len(cBuckets.drills) = 1
    /\ cBuckets.drills[1].name = <<"v", "i", "a", ".", "g", "b", "r">>
    /\ Len(cBuckets.gerbers) + Len(cBuckets.ignored) = 1

\* A '*'-wildcard match of the whole name: '*' stands for any run of
\* characters, every other character for itself.
RECURSIVE WildcardMatch(_, _)
WildcardMatch(name, pattern) ==
    IF pattern = <<>> THEN name = <<>>
    ELSE IF Head(pattern) = "*"
         THEN \E k \in 0..Len(name) :
                 WildcardMatch(SubSeq(name, k + 1, Len(name)), Tail(pattern))
         ELSE /\ name # <<>>
              /\ Head(name) = Head(pattern)
              /\ WildcardMatch(Tail(name), Tail(pattern))

\* The part of a path after its last "/".
RECURSIVE AfterLastSlash(_)
AfterLastSlash(name) ==
    IF \E i \in 1..Len(name) : name[i] = "/"
    THEN AfterLastSlash(Tail(name))
    ELSE name

HintsMatching(g) ==
    {i \in 1..Len(cHints) : WildcardMatch(AfterLastSlash(g.name), cHints[i].pattern)}

NamesADrillFile(name) ==
    LET lower == toLowerCase(name)
    IN  \/ endsWith(lower, <<".", "d", "r", "l">>)
        \/ endsWith(lower, <<".", "x", "l", "n", "t">>)
        \/ includes(lower, <<"d", "r", "i", "l", "l">>)
        \/ includes(lower, <<"v", "i", "a">>)

\* C26: the drill test comes before the Gerber test and before any hint:
\* every entry processed whose name the drill test accepts is in the drills
\* bucket, whatever its extension and whatever hints match it, and carries
\* no layer role; no other entry is in the drills bucket.
C26_DrillTestComesFirst ==
    /\ \A i \in 1..cPos :
          NamesADrillFile(cEntries[i].name) <=> i \in Range(IdsOf(cBuckets.drills))
    /\ \A k \in DOMAIN cBuckets.drills :
          /\ DOMAIN cBuckets.drills[k] = {"name", "rawEntry"}
          /\ NamesADrillFile(cBuckets.drills[k].name)
    /\ \A k \in DOMAIN cBuckets.gerbers :
          ~NamesADrillFile(cBuckets.gerbers[k].name)

\* C26 witness: via.gbr has a Gerber extension and is matched by the hint
\* *.gbr, and x.drl has the drill extension; both are in the drills bucket
\* and no Gerber was made.
C26_Witness ==
    /\ cPhase = "done"
    /\ Len(cEntries) = 2
    /\ Len(cBuckets.drills) = 2
    /\ cBuckets.drills[1].name = <<"v", "i", "a", ".", "g", "b", "r">>
    /\ cBuckets.drills[2].name = <<"x", ".", "d", "r", "l">>
    /\ isLikelyGerber(toLowerCase(cBuckets.drills[1].name))
    /\ HintsMatching(cBuckets.drills[1]) # {}
    /\ cBuckets.gerbers = <<>>

----------------------------------------------------------------------------
(* ========================= buildPcbGeometry =========================== *)

MaxLayers == 2

NoPrimitives == [tracks |-> <<>>, arcs |-> <<>>, flashes |-> <<>>, regions |-> <<>>]

Track(x1, y1, x2, y2, w) == [start |-> Vec(x1, y1), end |-> Vec(x2, y2), width |-> w]
Flash(x, y, d) ==
    [position |-> Vec(x, y), diameterMm |-> d, shape |-> "C",
     widthMm |-> None, heightMm |-> None]

\* One top copper layer with a single flash.
TopCopperOneFlash ==
    [name |-> "top.gtl", role |-> "top_copper",
     primitives |-> [NoPrimitives EXCEPT !.flashes = <<Flash(1000, 1000, 800)>>]]

\* Parsed layers: the single flash; two chained tracks and a zero-length
\* one; a region with a hole that reaches beyond its boundary; a layer
\* with no primitive; an inner layer; an outline drawn as one track; a top
\* copper layer whose only region has two points; an arc on a layer of
\* unknown role; a track of width zero under a mixed-case role.
ParsedLayers ==
    {TopCopperOneFlash,
     [name |-> "bottom.gbl", role |-> "bottom_copper",
      primitives |-> [NoPrimitives EXCEPT
         !.tracks = <<Track(0, 0, 2000, 0, 200), Track(2000, 1000, 2000, 0, 200),
                      Track(500, 500, 500, 500, 200)>>]],
     [name |-> "mask.gts", role |-> "top_mask",
      primitives |-> [NoPrimitives EXCEPT
         !.regions = <<[boundary |-> <<Vec(0, 0), Vec(2000, 0), Vec(0, 2000)>>,
                        holes |-> <<<<Vec(500, 500), Vec(2500, 500),
                                      Vec(500, 1000)>>>>]>>]],
     [name |-> "silk.gbo", role |-> "bottom_silk", primitives |-> NoPrimitives],
     [name |-> "in1.gbr", role |-> "inner_copper",
      primitives |-> [NoPrimitives EXCEPT !.flashes = <<Flash(3000, 2000, 0)>>]],
     [name |-> "edge.gm1", role |-> "outline",
      primitives |-> [NoPrimitives EXCEPT
         !.tracks = <<Track(-1000, -500, 3000, -500, 100)>>]],
     [name |-> "top2.gbr", role |-> "top_copper",
      primitives |-> [NoPrimitives EXCEPT
         !.regions = <<[boundary |-> <<Vec(0, 0), Vec(1000, 1000)>>,
                        holes |-> <<>>]>>]],
     [name |-> "notes.gbr", role |-> "unknown",
      primitives |-> [NoPrimitives EXCEPT
         !.arcs = <<[start |-> Vec(0, 0), end |-> Vec(1000, 0),
                     center |-> Vec(-2000, 500), clockwise |-> TRUE,
                     width |-> 200]>>]],
     [name |-> "silk.gbr", role |-> "Top_Silk",
      primitives |-> [NoPrimitives EXCEPT
         !.tracks = <<Track(0, 0, 0, 1500, 0)>>]]}

LayerLists == UNION {[1..n -> ParsedLayers] : n \in 0..MaxLayers}

Hole(x, y, d) == [x |-> x, y |-> y, diameter |-> d, plated |-> TRUE]

\* No drill file, one with one hole, two of them.
DrillFileLists ==
    {<<>>,
     <<[holes |-> <<Hole(1000, 1000, 600)>>]>>,
     <<[holes |-> <<Hole(1000, 1000, 600)>>],
       [holes |-> <<Hole(0, 0, 800), Hole(500, 0, 800)>>]>>}

InitStackup ==
    /\ IdleBuildPolylines
    /\ IdleNormalize
    /\ IdleDrill
    /\ IdlePolygonize
    /\ IdlePipeline
    /\ IdleGerber
    /\ IdleProcs
    /\ IdleBool
    /\ IdleClassify
    /\ \E layers \in LayerLists, drills \in DrillFileLists :
          sParams = [parsedGerbers |-> layers, parsedDrills |-> drills,
                     boardThicknessMm |-> 1600]
    /\ sPhase = "called"
    /\ sModel = None

BuildPcbGeometry ==
    /\ sPhase = "called"
    /\ sModel' = Some(buildPcbGeometry(sParams))
    /\ sPhase' = "done"
    /\ UNCHANGED sParams
    /\ UNCHANGED notStackup

NextStackup == BuildPcbGeometry

SpecStackup == InitStackup /\ [][NextStackup]_vars

----------------------------------------------------------------------------
(* Claims on buildPcbGeometry *)

InputHasRole(role) ==
    \E i \in 1..Len(sParams.parsedGerbers) : sParams.parsedGerbers[i].role = role

NamedLayers(layers, name) == {i \in 1..Len(layers) : layers[i].name = name}

\* The synthesized layer of a side is present once if no layer of the input
\* is classified as copper of that side, and absent otherwise.
AutoLayerIffMissing(m, side, autoName, role) ==
    LET autos == NamedLayers(m.copperLayers, autoName)
    IN  /\ Cardinality(autos) = IF InputHasRole(role) THEN 0 ELSE 1
        /\ \A i \in autos :
              m.copperLayers[i] =
                 [name |-> autoName, side |-> Some(side), kind |-> Some("copper"),
                  polygons |-> m.outline.polygons]

\* C4: the returned model has a top-side and a bottom-side copper layer; the
\* layer auto_top_copper (auto_bottom_copper), holding the board rectangle,
\* is in it if and only if the input has no top (bottom) copper layer; one
\* top copper layer with a single flash and no drill file gives that layer,
\* the synthesized bottom layer, an outline and no drills.
C4_TopAndBottomCopperAlways ==
    sPhase = "done" =>
        LET m == Val(sModel)
        IN  /\ \E i \in 1..Len(m.copperLayers) :
                  m.copperLayers[i].side = Some("top")
                    /\ m.copperLayers[i].kind = Some("copper")
            /\ \E i \in 1..Len(m.copperLayers) :
                  m.copperLayers[i].side = Some("bottom")
                    /\ m.copperLayers[i].kind = Some("copper")
            /\ AutoLayerIffMissing(m, "top", "auto_top_copper", "top_copper")
            /\ AutoLayerIffMissing(m, "bottom", "auto_bottom_copper", "bottom_copper")
            /\ (sParams.parsedGerbers = <<TopCopperOneFlash>>
                  /\ sParams.parsedDrills = <<>>)
               => /\ Len(m.copperLayers) = 2
                  /\ m.copperLayers[1].name = TopCopperOneFlash.name
                  /\ m.copperLayers[1].side = Some("top")
                  /\ Len(m.copperLayers[1].polygons) = 1
                  /\ m.copperLayers[2].name = "auto_bottom_copper"
                  /\ m.outline.kind = Some("outline")
                  /\ Len(m.outline.polygons) = 1
                  /\ m.drills = <<>>

\* The model of the single-flash top copper layer with no drill file.
C4_Witness ==
    /\ sPhase = "done"
    /\ sParams.parsedGerbers = <<TopCopperOneFlash>>
    /\ sParams.parsedDrills = <<>>
    /\ Len(Val(sModel).copperLayers) = 2

OutputLayers(m) == m.copperLayers \o m.maskLayers \o m.silkLayers \o <<m.outline>>

\* The rings the polygonizer gives for the primitives of the input layer of
\* this name that have three points or more.
RingsOfThree(polys) == {k \in 1..Len(polys) : Len(polys[k].outer) >= 3}

UsableRings(name) ==
    RingsOfThree(polygonizePrimitives(
        sParams.parsedGerbers[CHOOSE i \in 1..Len(sParams.parsedGerbers) :
                                 sParams.parsedGerbers[i].name = name].primitives))

\* C5: every layer of the returned model (copper, mask, silk, outline) has
\* at least one polygon and every polygon an outer ring of three points or
\* more; a layer whose primitives polygonize to no such polygon holds just
\* the board rectangle.
C5_LayersNeverEmpty ==
    sPhase = "done" =>
        LET m == Val(sModel)
            out == OutputLayers(m)
        IN  \A i \in 1..Len(out) :
               /\ Len(out[i].polygons) >= 1
               /\ \A k \in 1..Len(out[i].polygons) :
                     Len(out[i].polygons[k].outer) >= 3
               /\ (out[i].kind # Some("outline")
                     /\ out[i].name \notin {"auto_top_copper", "auto_bottom_copper"}
                     /\ UsableRings(out[i].name) = {})
                  => out[i].polygons = m.outline.polygons

\* One layer fell back to the board rectangle and another kept the polygon
\* of its own primitives.
C5_Witness ==
    /\ sPhase = "done"
    /\ LET m == Val(sModel)
       IN  /\ Len(m.silkLayers) = 1
           /\ m.silkLayers[1].name = "silk.gbo"
           /\ m.silkLayers[1].polygons = m.outline.polygons
           /\ Len(m.copperLayers) = 2
           /\ m.copperLayers[1].name = "bottom.gbl"
           /\ m.copperLayers[1].polygons # m.outline.polygons

\* The coordinates of all primitive points of the input: track ends, arc
\* ends and centers, flash positions, region ring points.
InputPoints ==
    LET L == sParams.parsedGerbers
    IN  UNION {
          {L[i].primitives.tracks[k].start : k \in 1..Len(L[i].primitives.tracks)}
            \cup {L[i].primitives.tracks[k].end : k \in 1..Len(L[i].primitives.tracks)}
            \cup {L[i].primitives.arcs[k].start : k \in 1..Len(L[i].primitives.arcs)}
            \cup {L[i].primitives.arcs[k].end : k \in 1..Len(L[i].primitives.arcs)}
            \cup {L[i].primitives.arcs[k].center : k \in 1..Len(L[i].primitives.arcs)}
            \cup {L[i].primitives.flashes[k].position : k \in 1..Len(L[i].primitives.flashes)}
            \cup UNION {
                   {L[i].primitives.regions[k].boundary[j] :
                        j \in 1..Len(L[i].primitives.regions[k].boundary)}
                     \cup UNION {
                            {L[i].primitives.regions[k].holes[h][j] :
                                j \in 1..Len(L[i].primitives.regions[k].holes[h])}
                            : h \in 1..Len(L[i].primitives.regions[k].holes)}
                   : k \in 1..Len(L[i].primitives.regions)}
          : i \in 1..Len(L)}

HasPrimitive ==
    \E i \in 1..Len(sParams.parsedGerbers) :
        LET p == sParams.parsedGerbers[i].primitives
        IN  Len(p.tracks) + Len(p.arcs) + Len(p.flashes) + Len(p.regions) > 0

\* C6: with a primitive in some layer, width and height are the extents of
\* the bounding box of all primitive points and the outline is that box;
\* with none, they are 100 mm and 50 mm and the outline is the rectangle of
\* that size at the origin.
C6_BoardSizeIsBoundingBox ==
    sPhase = "done" =>
        LET m == Val(sModel)
            xs == {q.x : q \in InputPoints}
            ys == {q.y : q \in InputPoints}
        IN  IF HasPrimitive
            THEN /\ \A q \in InputPoints :
                       /\ SetMin(xs) <= q.x /\ q.x <= SetMax(xs)
                       /\ SetMin(ys) <= q.y /\ q.y <= SetMax(ys)
                 /\ m.widthMm = SetMax(xs) - SetMin(xs)
                 /\ m.heightMm = SetMax(ys) - SetMin(ys)
                 /\ m.outline.polygons =
                       <<[outer |-> <<Vec(SetMin(xs), SetMin(ys)),
                                      Vec(SetMax(xs), SetMin(ys)),
                                      Vec(SetMax(xs), SetMax(ys)),
                                      Vec(SetMin(xs), SetMax(ys))>>,
                          holes |-> <<>>]>>
            ELSE /\ m.widthMm = 100 * MicronsPerMm
                 /\ m.heightMm = 50 * MicronsPerMm
                 /\ m.outline.polygons =
                       <<[outer |-> <<Vec(0, 0), Vec(100 * MicronsPerMm, 0),
                                      Vec(100 * MicronsPerMm, 50 * MicronsPerMm),
                                      Vec(0, 50 * MicronsPerMm)>>,
                          holes |-> <<>>]>>

\* The box of a layer whose leftmost point is an arc center, joined with a
\* region whose hole reaches further right than its boundary.
C6_Witness ==
    /\ sPhase = "done"
    /\ Len(sParams.parsedGerbers) = 2
    /\ sParams.parsedGerbers[1].name = "notes.gbr"
    /\ sParams.parsedGerbers[2].name = "mask.gts"
    /\ Val(sModel).widthMm = 4500
    /\ Val(sModel).heightMm = 2000

\* The names of the input layers whose role maps to this kind, in input
\* order.
InputNamesOfKind(kind) ==
    LET ofKind == SelectSeq(sParams.parsedGerbers,
                            LAMBDA l : roleToSideAndKind(l).kind = Some(kind))
    IN  [i \in 1..Len(ofKind) |-> ofKind[i].name]

\* The names of the layers of an output list that were not synthesized.
OutputNames(layers) ==
    LET own == SelectSeq(layers,
                         LAMBDA g : g.name \notin {"auto_top_copper",
                                                    "auto_bottom_copper"})
    IN  [i \in 1..Len(own) |-> own[i].name]

\* C14 (as claimed): the layers of each output list, the synthesized ones
\* aside, are the input layers whose role maps to the kind of that list,
\* one LayerGeometry each, under their own names and in input order; a
\* layer of role outline, mechanical or unknown is in none of the lists.
C14_EveryLayerRoutedByKind ==
    sPhase = "done" =>
        /\ OutputNames(Val(sModel).copperLayers) = InputNamesOfKind("copper")
        /\ OutputNames(Val(sModel).maskLayers) = InputNamesOfKind("soldermask")
        /\ OutputNames(Val(sModel).silkLayers) = InputNamesOfKind("silkscreen")

\* C30 (as claimed): the model buildPcbGeometry returns has a width and a
\* height above zero for every set of parsed layers, those whose
\* primitives lie at one point or on one axis-parallel line included.
C30_BoardHasPositiveExtent ==
    sPhase = "done" => Val(sModel).widthMm > 0 /\ Val(sModel).heightMm > 0

----------------------------------------------------------------------------
(* ========================= loadPcbGeometryFromZip ===================== *)

MaxFiles == 2

\* A top copper file with one flash.
OneFlashText ==
    <<BlankLine, FSLine(TRUE, 2, 3), ADLine(TRUE, 10, "C", Some(1), None),
      Cmd("", None, None, Some(<<1, 0>>)),
      Cmd("", Some(Coord(FALSE, 1000)), Some(Coord(FALSE, 2000)), Some(<<0, 3>>)),
      Cmd("M02", None, None, None), BlankLine>>

\* A region whose only contour is A, B, A.
FlatRegionText ==
    <<Cmd("G36", None, None, None),
      Cmd("", Some(Coord(FALSE, 0)), Some(Coord(FALSE, 0)), Some(<<0, 2>>)),
      Cmd("", Some(Coord(FALSE, 1000)), None, Some(<<0, 1>>)),
      Cmd("", Some(Coord(FALSE, 0)), None, Some(<<0, 1>>)),
      Cmd("G37", None, None, None)>>

OneHoleText ==
    <<ToolDef(TRUE, <<1>>, Some(300)), ToolChange(TRUE, <<1>>),
      DrillCoord(TRUE, Some(1000), Some(1000)), DrillBlank>>

File(rawName, dir, readable, lines) ==
    [rawName |-> rawName, dir |-> dir, readable |-> readable, lines |-> lines]

\* Files of an archive: a readable Gerber, a second one that holds a flat
\* region, the first file with a damaged stream, a readable drill file, a damaged one, a damaged text file, a
\* directory.
ArchiveFiles ==
    {File(<<".", "/", "a", ".", "g", "t", "l">>, FALSE, TRUE, OneFlashText),
     File(<<"b", ".", "g", "b", "l">>, FALSE, TRUE, FlatRegionText),
     File(<<"a", ".", "g", "t", "l">>, FALSE, FALSE, <<>>),
     File(<<"d", ".", "d", "r", "l">>, FALSE, TRUE, OneHoleText),
     File(<<"x", "\\", "d", ".", "d", "r", "l">>, FALSE, FALSE, <<>>),
     File(<<"r", "e", "a", "d", "m", "e">>, FALSE, FALSE, <<>>),
     File(<<"g", "/">>, TRUE, FALSE, <<>>)}

Archives ==
    {[ok |-> ok, files |-> files] :
        ok \in BOOLEAN, files \in UNION {[1..n -> ArchiveFiles] : n \in 0..MaxFiles}}

InitPipeline ==
    /\ IdleBuildPolylines
    /\ IdleNormalize
    /\ IdleDrill
    /\ IdlePolygonize
    /\ IdleGerber
    /\ IdleProcs
    /\ IdleBool
    /\ IdleClassify
    /\ IdleStackup
    /\ pArchive \in Archives
    /\ pOptions \in {[layerHints |-> <<>>, boardThicknessMm |-> t] :
                        t \in {None, Some(800)}}
    /\ pPhase = "called"
    /\ pOpened = FALSE
    /\ pClassified = EmptyBuckets
    /\ pReads = 0
    /\ pGerbers = <<>>
    /\ pDrills = <<>>
    /\ pResult = None

\* The getText() calls of the two loops, in order.
ReadTargets(classified) == classified.gerbers \o classified.drills

\* The end of loadPcbGeometryFromZip: buildPcbGeometry and return.
Geometry(gerbers, drills) ==
    buildPcbGeometry([parsedGerbers |-> gerbers, parsedDrills |-> drills,
                      boardThicknessMm |->
                          IF IsSome(pOptions.boardThicknessMm)
                          THEN Val(pOptions.boardThicknessMm) ELSE 1600])

\* The state after k reads have resolved: the next read is awaited, or the
\* loops are over and the promise resolves.
Continue(classified, k, gerbers, drills) ==
    /\ pReads' = k
    /\ pGerbers' = gerbers
    /\ pDrills' = drills
    /\ IF k < Len(ReadTargets(classified))
       THEN pPhase' = "reading" /\ pResult' = None
       ELSE pPhase' = "resolved" /\ pResult' = Some(Geometry(gerbers, drills))

\* await unzipGerbersZip(input) rejects: the archive cannot be opened.
UnzipRejects ==
    /\ pPhase = "called"
    /\ ~pArchive.ok
    /\ pPhase' = "rejected"
    /\ UNCHANGED <<pArchive, pOptions, pOpened, pClassified, pReads, pGerbers,
                   pDrills, pResult>>
    /\ UNCHANGED notPipeline

\* await unzipGerbersZip(input) resolves: classify, then run to the first
\* await of a getText() or to the end.
UnzipResolves ==
    /\ pPhase = "called"
    /\ pArchive.ok
    /\ pOpened' = TRUE
    /\ LET classified == classifyFiles(unzipGerbersZip(pArchive), pOptions.layerHints)
       IN  /\ pClassified' = classified
           /\ Continue(classified, 0, <<>>, <<>>)
    /\ UNCHANGED <<pArchive, pOptions>>
    /\ UNCHANGED notPipeline

\* await getText() resolves: parse the text, then run to the next await.
ReadResolves ==
    /\ pPhase = "reading"
    /\ LET target == ReadTargets(pClassified)[pReads + 1]
           file == pArchive.files[target.rawEntry.id]
       IN  /\ file.readable
           /\ IF pReads < Len(pClassified.gerbers)
              THEN Continue(pClassified, pReads + 1,
                            Append(pGerbers, ParsedGerberLayer(target, file.lines)),
                            pDrills)
              ELSE Continue(pClassified, pReads + 1, pGerbers,
                            Append(pDrills, ParsedDrillData(target, file.lines)))
    /\ UNCHANGED <<pArchive, pOptions, pOpened, pClassified>>
    /\ UNCHANGED notPipeline

\* await getText() rejects: nothing catches it, the promise of
\* loadPcbGeometryFromZip is rejected.
ReadRejects ==
    /\ pPhase = "reading"
    /\ LET target == ReadTargets(pClassified)[pReads + 1]
       IN  ~pArchive.files[target.rawEntry.id].readable
    /\ pPhase' = "rejected"
    /\ UNCHANGED <<pArchive, pOptions, pOpened, pClassified, pReads, pGerbers,
                   pDrills, pResult>>
    /\ UNCHANGED notPipeline

NextPipeline == UnzipRejects \/ UnzipResolves \/ ReadResolves \/ ReadRejects

SpecPipeline == InitPipeline /\ [][NextPipeline]_vars

----------------------------------------------------------------------------
(* Claims on loadPcbGeometryFromZip *)

\* C9: once the archive has been opened the promise is never rejected: a
\* rejection happens only when the archive itself cannot be opened.
C9_OnlyArchiveFailureRejects == pPhase = "rejected" => ~pOpened

\* The layers of the returned model.
ResultLayers ==
    Val(pResult).copperLayers \o Val(pResult).maskLayers \o Val(pResult).silkLayers

\* C12 (as claimed): no polygon that stems from the primitives of an input
\* file and encloses no area is part of the returned model (the board
\* rectangle that stands in for an empty layer is left aside).
C12_NoZeroAreaPolygonInModel ==
    pPhase = "resolved" =>
        \A i \in 1..Len(ResultLayers) :
            \A k \in 1..Len(ResultLayers[i].polygons) :
                ResultLayers[i].polygons[k] # Val(pResult).outline.polygons[1]
                    => computeSignedArea(ResultLayers[i].polygons[k].outer) # 0


----------------------------------------------------------------------------
(* ========================= polygonizePrimitives ======================= *)

MaxTracks == 2

\* Tracks on the corner A = (0,0), B = (1000,0), C = (1000,1000) drawn in
\* both directions, a zero-length track, a track of width zero, a wider
\* track that shares B.
TrackCatalogue ==
    {Track(0, 0, 1000, 0, 200), Track(1000, 0, 0, 0, 200),
     Track(1000, 0, 1000, 1000, 200), Track(1000, 1000, 1000, 0, 200),
     Track(500, 500, 500, 500, 200), Track(0, 2000, 1000, 2000, 0),
     Track(1000, 0, 2000, 0, 400)}

TrackLists == UNION {[1..n -> TrackCatalogue] : n \in 0..MaxTracks}

FlashLists == {<<>>, <<Flash(1000, 1000, 800)>>, <<Flash(0, 0, 0)>>}

Region(boundary, holes) == [boundary |-> boundary, holes |-> holes]

\* No region; a triangle in each winding; the contour A, B, A; a contour
\* of three collinear points; a contour of two points.
RegionLists ==
    {<<>>,
     <<Region(<<Vec(0, 0), Vec(2000, 0), Vec(0, 2000)>>,
              <<<<Vec(500, 500), Vec(1000, 500), Vec(500, 1000)>>>>)>>,
     <<Region(<<Vec(0, 0), Vec(0, 2000), Vec(2000, 0)>>, <<>>)>>,
     <<Region(<<Vec(0, 0), Vec(1000, 0), Vec(0, 0)>>, <<>>)>>,
     <<Region(<<Vec(0, 0), Vec(1000, 0), Vec(2000, 0)>>, <<>>)>>,
     <<Region(<<Vec(0, 0), Vec(1000, 1000)>>, <<>>)>>}

InitPolygonize ==
    /\ IdleBuildPolylines
    /\ IdleNormalize
    /\ IdleDrill
    /\ IdleGerber
    /\ IdleProcs
    /\ IdleBool
    /\ IdleClassify
    /\ IdleStackup
    /\ IdlePipeline
    /\ \E tracks \in TrackLists, flashes \in FlashLists, regions \in RegionLists :
          zPrims = [tracks |-> tracks, arcs |-> <<>>, flashes |-> flashes,
                    regions |-> regions]
    /\ zPhase = "called"
    /\ zLines = <<>>
    /\ zPolys = <<>>

PolygonizePrimitives ==
    /\ zPhase = "called"
    /\ zLines' = buildPolylines(zPrims.tracks)
    /\ zPolys' = polygonizePrimitives(zPrims)
    /\ zPhase' = "done"
    /\ UNCHANGED zPrims
    /\ UNCHANGED notPolygonize

NextPolygonize == PolygonizePrimitives

SpecPolygonize == InitPolygonize /\ [][NextPolygonize]_vars

\* The polygons of the result that enclose some area.
AreaPolygons == {i \in 1..Len(zPolys) : computeSignedArea(zPolys[i].outer) # 0}

\* C11 (as claimed): the outer rings of all polygons returned by
\* polygonizePrimitives that enclose some area have a signed area of the
\* same sign, whether they stem from a track, a flash or a region.
C11_SameWindingForAllProducers ==
    zPhase = "done" =>
        \A i, j \in AreaPolygons :
            Sgn(computeSignedArea(zPolys[i].outer))
                = Sgn(computeSignedArea(zPolys[j].outer))

\* The tracks are a chain [A -> B], [B -> C] of three different points.
IsSimpleChain(tracks) ==
    /\ Len(tracks) = 2
    /\ tracks[1].end = tracks[2].start
    /\ tracks[1].start # tracks[1].end
    /\ tracks[2].start # tracks[2].end
    /\ tracks[1].start # tracks[2].end

\* [C -> B], [B -> A] for the chain [A -> B], [B -> C].
Mirrored(tracks) ==
    <<[start |-> tracks[2].end, end |-> tracks[2].start, width |-> tracks[2].width],
      [start |-> tracks[1].end, end |-> tracks[1].start, width |-> tracks[1].width]>>

\* Each chain gives one polyline, and one is the reverse of the other.
MirrorIsReverse(lines, mirrorLines) ==
    /\ Len(lines) = 1
    /\ Len(mirrorLines) = 1
    /\ mirrorLines[1].points = Reverse(lines[1].points)

Occurrences(points, pt) == Cardinality({i \in 1..Len(points) : points[i] = pt})

----------------------------------------------------------------------------
(* ========================= parseDrillFile ============================= *)

MaxDrillLines == 4

\* Lines of a drill file: a comment and an unrecognized line; tool 1
\* defined with two diameters, tool 01, a definition whose diameter does
\* not parse; changes to tool 1 and tool 2; a coordinate line, one with X
\* only, one whose X does not parse.
DrillLines ==
    {DrillComment, DrillOther,
     ToolDef(TRUE, <<1>>, Some(300)), ToolDef(TRUE, <<1>>, Some(0)),
     ToolDef(TRUE, <<0, 1>>, Some(800)), ToolDef(TRUE, <<2>>, None),
     ToolChange(TRUE, <<1>>), ToolChange(TRUE, <<2>>),
     DrillCoord(TRUE, Some(1000), Some(-2000)), DrillCoord(FALSE, None, None),
     DrillCoord(TRUE, None, Some(1000))}

InitDrill ==
    /\ IdleBuildPolylines
    /\ IdleNormalize
    /\ IdleGerber
    /\ IdleProcs
    /\ IdleBool
    /\ IdleClassify
    /\ IdleStackup
    /\ IdlePipeline
    /\ IdlePolygonize
    /\ dState = InitDrillState
    /\ dPhase = "parsing"
    /\ dLines = <<>>
    /\ dResult = None

\* The loop body of parseDrillFile on the next line of the file.
DrillStep(line) ==
    /\ dPhase = "parsing"
    /\ Len(dLines) < MaxDrillLines
    /\ dState' = ProcessDrillLine(line, dState)
    /\ dLines' = Append(dLines, line)
    /\ UNCHANGED <<dPhase, dResult>>
    /\ UNCHANGED notDrill

\* End of input: the holes are returned.
DrillFinish ==
    /\ dPhase = "parsing"
    /\ dPhase' = "done"
    /\ dResult' = Some(dState.holes)
    /\ UNCHANGED <<dState, dLines>>
    /\ UNCHANGED notDrill

NextDrill ==
    \/ \E line \in DrillLines : DrillStep(line)
    \/ DrillFinish

SpecDrill == InitDrill /\ [][NextDrill]_vars

----------------------------------------------------------------------------
(* Claims on parseDrillFile *)

\* A coordinate line: X and Y are both present and both parse as numbers.
IsCoordinateLine(line) ==
    line.kind = "coord" /\ line.ok /\ IsSome(line.x) /\ IsSome(line.y)

\* The positions before line i of the tool changes, and of the definitions
\* of a tool that carry a diameter.
ChangesBefore(i) ==
    {k \in 1..(i - 1) : dLines[k].kind = "toolchange" /\ dLines[k].ok}

DefinitionsBefore(i, id) ==
    {k \in 1..(i - 1) : /\ dLines[k].kind = "tooldef"
                        /\ dLines[k].ok
                        /\ IsSome(dLines[k].dia)
                        /\ dLines[k].id = id}

\* The diameter the claim gives the hole of line i: that of the latest
\* definition, before line i, of the tool of the latest tool change before
\* line i; the fallback when there is no such change or no such definition.
ClaimedDiameter(i) ==
    IF ChangesBefore(i) = {} THEN DEFAULT_DRILL_DIAMETER
    ELSE IF DefinitionsBefore(i, dLines[SetMax(ChangesBefore(i))].id) = {}
         THEN DEFAULT_DRILL_DIAMETER
         ELSE Val(dLines[SetMax(DefinitionsBefore(i,
                        dLines[SetMax(ChangesBefore(i))].id))].dia)

CoordinateLinesRead ==
    SelectSeq([i \in 1..Len(dLines) |-> i], LAMBDA i : IsCoordinateLine(dLines[i]))

ClaimedHoles(at) ==
    [h \in 1..Len(at) |->
        [x |-> Val(dLines[at[h]].x), y |-> Val(dLines[at[h]].y),
         diameter |-> ClaimedDiameter(at[h]), plated |-> TRUE]]

\* C15: the holes are those of the coordinate lines read so far, one each
\* and in order, every one plated and of the diameter defined, when its
\* line was read, for the tool then selected (the fallback 0.6 when no tool
\* was selected or the selected tool had no definition); no other line
\* adds a hole, and the call returns these holes.
C15_OneHolePerCoordinateLine ==
    /\ dState.holes = ClaimedHoles(CoordinateLinesRead)
    /\ dPhase = "done" => dResult = Some(dState.holes)

\* A returned hole drilled with tool 1, which was selected after its first
\* definition and redefined before the coordinate line.
C15_Witness ==
    /\ dPhase = "done"
    /\ dLines = <<ToolDef(TRUE, <<1>>, Some(300)), ToolChange(TRUE, <<1>>),
                  ToolDef(TRUE, <<1>>, Some(0)),
                  DrillCoord(TRUE, Some(1000), Some(-2000))>>
    /\ Val(dResult) = <<[x |-> 1000, y |-> -2000, diameter |-> 0, plated |-> TRUE]>>

\* The number a tool code's digits write (parseInt of "01" is 1).
RECURSIVE ToolNumber(_)
ToolNumber(id) ==
    IF id = <<>> THEN 0
    ELSE 10 * ToolNumber(SubSeq(id, 1, Len(id) - 1)) + id[Len(id)]

\* The definitions before line i of the tool of number n.
DefinitionsOfNumberBefore(i, n) ==
    {k \in 1..(i - 1) : /\ dLines[k].kind = "tooldef"
                        /\ dLines[k].ok
                        /\ IsSome(dLines[k].dia)
                        /\ ToolNumber(dLines[k].id) = n}

\* C29 (as claimed): tool selection is by tool number: a hole drilled
\* after a tool change T<m> has the diameter of the latest definition
\* T<n>C<d> with n = m (T1 selects the tool defined as T01), and the
\* fallback diameter only when no tool of that number was defined.
C29_ToolSelectedByNumber ==
    \A h \in 1..Len(dState.holes) :
        LET i == CoordinateLinesRead[h]
        IN  ChangesBefore(i) # {} =>
               LET defs == DefinitionsOfNumberBefore(i,
                               ToolNumber(dLines[SetMax(ChangesBefore(i))].id))
               IN  dState.holes[h].diameter =
                      IF defs = {} THEN DEFAULT_DRILL_DIAMETER
                      ELSE Val(dLines[SetMax(defs)].dia)


----------------------------------------------------------------------------
(* ========================= normalizeTextContent ======================= *)

MaxChars == 4

TextChars == {Bom, "\r", "\n", " ", "a"}

Texts == UNION {[1..n -> TextChars] : n \in 0..MaxChars}

InitNormalize ==
    /\ IdleBuildPolylines
    /\ IdleGerber
    /\ IdleProcs
    /\ IdleBool
    /\ IdleClassify
    /\ IdleStackup
    /\ IdlePipeline
    /\ IdlePolygonize
    /\ IdleDrill
    /\ txText \in Texts
    /\ txPrev = <<>>
    /\ txCalls = 0

\* normalizeTextContent is called on the text, then on what it returned.
Normalize ==
    /\ txCalls \in {0, 1}
    /\ txPrev' = txText
    /\ txText' = normalizeTextContent(txText)
    /\ txCalls' = txCalls + 1
    /\ UNCHANGED notNormalize

NextNormalize == Normalize

SpecNormalize == InitNormalize /\ [][NextNormalize]_vars

\* C16 (as claimed): normalizeTextContent applied to its own output returns
\* that output unchanged, for every input text.
C16_NormalizeIsIdempotent == txCalls = 2 => txText = txPrev


----------------------------------------------------------------------------
(* ========================= Regions of parseGerberFile ================= *)
(* The parse of SpecGerber on files long enough to hold a region with a    *)
(* boundary and a hole, over the lines that matter inside a region.        *)

MaxRegionLines == 7

G36Line == Cmd("G36", None, None, None)
G37Line == Cmd("G37", None, None, None)

RegionLines ==
    {G36Line, G37Line,
     Cmd("", Some(Coord(FALSE, 1)), Some(Coord(FALSE, 1)), Some(<<0, 1>>)),
     Cmd("", None, Some(Coord(TRUE, 2)), Some(<<0, 1>>)),
     Cmd("", Some(Coord(TRUE, 2)), None, Some(<<0, 2>>)),
     Cmd("", Some(Coord(TRUE, 2)), Some(Coord(FALSE, 1)), Some(<<0, 3>>))}

RegionStep(line) ==
    /\ gPhase = "parsing"
    /\ gCount < MaxRegionLines
    /\ gState' = ProcessLine(line, gState)
    /\ gCount' = gCount + 1
    /\ gLast' = Some(line)
    /\ UNCHANGED <<gPhase, gResult>>
    /\ UNCHANGED notGerber

NextRegion ==
    \/ \E line \in RegionLines : RegionStep(line)
    \/ GerberFinish

SpecRegion == InitGerber /\ [][NextRegion]_vars

\* The contours completed in the region that is open: those closed so far,
\* and the one in progress when it has 3 points or more.
CompletedContours(st) ==
    IF Len(st.currentPath) >= 3
    THEN st.regionPaths \o <<st.currentPath>>
    ELSE st.regionPaths

\* The regions after the open region has ended.
RegionsAfterEnd(st) ==
    IF CompletedContours(st) = <<>> THEN st.regions
    ELSE Append(st.regions,
                [boundary |-> Head(CompletedContours(st)),
                 holes |-> Tail(CompletedContours(st))])

OutOfRegionMode(st) ==
    ~st.inRegion /\ st.regionPaths = <<>> /\ st.currentPath = <<>>

\* C18: the contours kept for the open region all have 3 points or more
\* and there is none outside region mode; G37 emits exactly one region when
\* a contour was completed, its boundary the first completed contour and
\* its holes the later ones in order, and none otherwise; the end of input
\* in region mode returns the regions G37 would have given as the last
\* line; after either the parser is out of region mode with empty contour
\* lists.
C18_RegionEndEmitsOneRegion ==
    /\ [](\A i \in 1..Len(gState.regionPaths) : Len(gState.regionPaths[i]) >= 3)
    /\ [](~gState.inRegion => gState.regionPaths = <<>> /\ gState.currentPath = <<>>)
    /\ [][(gCount' = gCount + 1 /\ gLast' = Some(G37Line)) =>
             /\ gState'.regions = RegionsAfterEnd(gState)
             /\ OutOfRegionMode(gState')]_vars
    /\ [][gPhase' = "done" =>
             /\ OutOfRegionMode(gState')
             /\ gState'.regions =
                   IF gState.inRegion THEN RegionsAfterEnd(gState) ELSE gState.regions
             /\ Val(gResult') = PrimitivesOf(ProcessLine(G37Line, gState))]_vars

\* C18 witness: G37 ended a region with a boundary of 3 points and one
\* hole of 3 points.
C18_Witness ==
    /\ gLast = Some(G37Line)
    /\ gCount = MaxRegionLines
    /\ Len(gState.regions) = 1
    /\ Len(gState.regions[1].boundary) = 3
    /\ Len(gState.regions[1].holes) = 1
    /\ Len(gState.regions[1].holes[1]) = 3
    /\ gState.regions[1].holes[1] # gState.regions[1].boundary

\* The line just read is an operation with this D code.
OperationRead(code) ==
    /\ gCount' = gCount + 1
    /\ Val(gLast').kind = "cmd"
    /\ ParseDCode(Val(gLast').d) = Some(code)

\* The line read before the one being read was a move (D02).
AfterMove ==
    /\ IsSome(gLast)
    /\ Val(gLast).kind = "cmd"
    /\ ParseDCode(Val(gLast).d) = Some(2)

C25_PenFollowsOperationLine ==
    [][(OperationRead(1) \/ OperationRead(2) \/ OperationRead(3)) =>
          LET line == Val(gLast')
          IN  /\ gState'.x = IF IsSome(line.x)
                             THEN decodeCoord(Val(line.x), gState)
                             ELSE gState.x
              /\ gState'.y = IF IsSome(line.y)
                             THEN decodeCoord(Val(line.y), gState)
                             ELSE gState.y
              /\ Len(gState'.tracks) > Len(gState.tracks) =>
                    gState'.tracks[Len(gState'.tracks)].end =
                        [x |-> gState'.x, y |-> gState'.y]
              /\ Len(gState'.flashes) > Len(gState.flashes) =>
                    gState'.flashes[Len(gState'.flashes)].position =
                        [x |-> gState'.x, y |-> gState'.y]]_vars

\* C25 witness: a flash at X-2 Y1 and then a draw that gives only Y; the
\* track ends at the pen, whose x is still the flash's and whose y is the
\* draw's.
C25_Witness ==
    /\ gCount = 4
    /\ gLast = Some(Cmd("", None, Some(Coord(TRUE, 2)), Some(<<0, 1>>)))
    /\ Len(gState.flashes) = 1
    /\ Len(gState.tracks) = 1
    /\ gState.flashes[1].position.x < 0
    /\ gState.flashes[1].position.y > 0
    /\ gState.x = gState.flashes[1].position.x
    /\ gState.y < 0
    /\ gState.tracks[1].end = [x |-> gState.x, y |-> gState.y]


----------------------------------------------------------------------------
(* ========================= buildPolylines ============================= *)
(* One buildPolylines call, one loop iteration per step.                   *)

MaxChainTracks == 3

\* Tracks at the junction B = (1000,0): A-B in both directions (a closed
\* loop), B-C, a wider track B-D, and a zero-length track.
ChainTrackCatalogue ==
    {Track(0, 0, 1000, 0, 200), Track(1000, 0, 0, 0, 200),
     Track(1000, 0, 1000, 1000, 200), Track(1000, 0, 2000, 0, 400),
     Track(500, 500, 500, 500, 200)}

ChainTrackLists == UNION {[1..n -> ChainTrackCatalogue] : n \in 0..MaxChainTracks}

InitBuildPolylines ==
    /\ IdleGerber
    /\ IdleProcs
    /\ IdleBool
    /\ IdleClassify
    /\ IdleStackup
    /\ IdlePipeline
    /\ IdlePolygonize
    /\ IdleDrill
    /\ IdleNormalize
    /\ bpTracks = <<>>
    /\ bpPhase = "called"
    /\ bpI = 1
    /\ bpVisited = <<>>
    /\ bpPoints = <<>>
    /\ bpWidth = 0
    /\ bpPolylines = <<>>
    /\ bpMarks = <<>>
    /\ bpPushed = {}

\* The call: an empty list returns at once, any other gets its node map
\* and its visited array.
BuildCall ==
    /\ bpPhase = "called"
    /\ \E tracks \in ChainTrackLists :
          /\ bpTracks' = tracks
          /\ bpPhase' = IF Len(tracks) = 0 THEN "done" ELSE "scan"
          /\ bpVisited' = [t \in 1..Len(tracks) |-> FALSE]
          /\ bpMarks' = [t \in 1..Len(tracks) |-> <<>>]
    /\ UNCHANGED <<bpI, bpPoints, bpWidth, bpPolylines, bpPushed>>
    /\ UNCHANGED notBuildPolylines

\* if (visited[i]) continue;
ScanSkip ==
    /\ bpPhase = "scan"
    /\ bpI <= Len(bpTracks)
    /\ bpVisited[bpI]
    /\ bpI' = bpI + 1
    /\ UNCHANGED <<bpTracks, bpPhase, bpVisited, bpPoints, bpWidth, bpPolylines,
                   bpMarks, bpPushed>>
    /\ UNCHANGED notBuildPolylines

\* An unvisited track starts a polyline of its width.
ScanStart ==
    /\ bpPhase = "scan"
    /\ bpI <= Len(bpTracks)
    /\ ~bpVisited[bpI]
    /\ bpVisited' = [bpVisited EXCEPT ![bpI] = TRUE]
    /\ bpMarks' = [bpMarks EXCEPT ![bpI] = Append(@, bpI)]
    /\ bpPoints' = <<bpTracks[bpI].start, bpTracks[bpI].end>>
    /\ bpWidth' = IF bpTracks[bpI].width # 0 THEN bpTracks[bpI].width
                  ELSE DEFAULT_TRACE_WIDTH_MM
    /\ bpPhase' = "back"
    /\ UNCHANGED <<bpTracks, bpI, bpPolylines, bpPushed>>
    /\ UNCHANGED notBuildPolylines

\* The pivot of extendPolyline and the track its scan of the incidents
\* finds.
Pivot == IF bpPhase = "back" THEN bpPoints[1] ELSE bpPoints[Len(bpPoints)]
NextAtPivot ==
    NextIncident(Incidents(bpTracks, keyOf(Pivot)), bpTracks, bpVisited, Pivot)

\* One iteration of the while loop of extendPolyline that finds a track.
ExtendStep ==
    /\ bpPhase \in {"back", "forth"}
    /\ IsSome(NextAtPivot)
    /\ bpVisited' = [bpVisited EXCEPT ![Val(NextAtPivot)] = TRUE]
    /\ bpMarks' = [bpMarks EXCEPT ![Val(NextAtPivot)] = Append(@, bpI)]
    /\ bpPoints' = Grow(bpPoints, OtherEnd(bpTracks[Val(NextAtPivot)], Pivot),
                        bpPhase = "back")
    /\ UNCHANGED <<bpTracks, bpPhase, bpI, bpWidth, bpPolylines, bpPushed>>
    /\ UNCHANGED notBuildPolylines

\* The backward extendPolyline finds no track and returns.
BackReturn ==
    /\ bpPhase = "back"
    /\ ~IsSome(NextAtPivot)
    /\ bpPhase' = "forth"
    /\ UNCHANGED <<bpTracks, bpI, bpVisited, bpPoints, bpWidth, bpPolylines,
                   bpMarks, bpPushed>>
    /\ UNCHANGED notBuildPolylines

\* The forward extendPolyline returns; the points are cleaned and the
\* polyline is pushed when it has two points or more.
ForthReturn ==
    /\ bpPhase = "forth"
    /\ ~IsSome(NextAtPivot)
    /\ \E deduped \in {dedupePoints(bpPoints)} :
       \E points \in {simplifyPolyline(deduped)} :
          /\ bpPolylines' = IF Len(points) >= 2
                             THEN Append(bpPolylines,
                                         [points |-> points, width |-> bpWidth])
                             ELSE bpPolylines
          /\ bpPushed' = IF Len(points) >= 2
                          THEN bpPushed \cup {<<bpI, bpWidth>>}
                          ELSE bpPushed
    /\ bpI' = bpI + 1
    /\ bpPhase' = "scan"
    /\ bpPoints' = <<>>
    /\ bpWidth' = 0
    /\ UNCHANGED <<bpTracks, bpVisited, bpMarks>>
    /\ UNCHANGED notBuildPolylines

\* return polylines
BuildReturn ==
    /\ bpPhase = "scan"
    /\ bpI > Len(bpTracks)
    /\ bpPhase' = "done"
    /\ UNCHANGED <<bpTracks, bpI, bpVisited, bpPoints, bpWidth, bpPolylines,
                   bpMarks, bpPushed>>
    /\ UNCHANGED notBuildPolylines

NextBuildPolylines ==
    \/ BuildCall
    \/ ScanSkip
    \/ ScanStart
    \/ ExtendStep
    \/ BackReturn
    \/ ForthReturn
    \/ BuildReturn

\* The call runs on its own thread of control: a loop that can take its
\* next step takes it.
SpecBuildPolylines ==
    InitBuildPolylines /\ [][NextBuildPolylines]_vars /\ WF_vars(NextBuildPolylines)

\* C27: buildPolylines returns for every track list, closed loops,
\* junctions and zero-length tracks included; no track is marked visited
\* twice, at the return every track has been marked under exactly one
\* polyline, and every polyline returned has two distinct points.
C27_BuildPolylinesTerminates ==
    /\ <>(bpPhase = "done")
    /\ [](\A t \in 1..Len(bpTracks) :
             /\ Len(bpMarks[t]) <= 1
             /\ bpVisited[t] <=> Len(bpMarks[t]) = 1)
    /\ [](bpPhase = "done" =>
             /\ \A t \in 1..Len(bpTracks) : Len(bpMarks[t]) = 1
             /\ \A k \in 1..Len(bpPolylines) :
                   /\ Len(bpPolylines[k].points) >= 2
                   /\ ~isSamePoint(bpPolylines[k].points[1],
                                   bpPolylines[k].points[2])
             /\ bpPolylines = buildPolylines(bpTracks))

\* C27 witness: the loop A-B, B-A and a zero-length track; the loop is one
\* closed polyline that took both tracks, the zero-length track was taken
\* by a polyline of its own, which was dropped.
C27_Witness ==
    /\ bpPhase = "done"
    /\ Len(bpTracks) = 3
    /\ bpMarks = <<<<1>>, <<1>>, <<3>>>>
    /\ bpTracks[3].start = bpTracks[3].end
    /\ Len(bpPolylines) = 1
    /\ bpPolylines[1].points[1] = bpPolylines[1].points[Len(bpPolylines[1].points)]
    /\ Len(bpPolylines[1].points) = 3


\* C28 (as claimed): every track taken into a polyline that is pushed, and
\* so stroked, has the width the polyline is stroked with; tracks of
\* different widths that share an endpoint are not merged.
C28_TracksStrokedAtOwnWidth ==
    \A t \in 1..Len(bpTracks) :
        \A pushed \in bpPushed :
            bpMarks[t] = <<pushed[1]>> => bpTracks[t].width = pushed[2]

============================================================================
